---- MODULE Spec2Model ----
(***************************************************************************)
(* A model of pdb-clone's C tracing engine and of its remote-attach        *)
(* bootstrap.                                                              *)
(*                                                                         *)
(*   lib/pdb_clone/_bdbmodule-py27.c   the BdbTracer dispatcher            *)
(*   lib/pdb_clone/_pdbhandler-py3.c   the signal handler and bootstrappdb *)
(*                                                                         *)
(* Each C function is an operator from a "world" record to a world record  *)
(* (and a result); each event the host delivers, and each method the front *)
(* end calls, is one action that runs the whole handler.                   *)
(*                                                                         *)
(* Frames.  A frame that is on the call stack is named by its depth        *)
(* (1 = oldest); f_back of frame d is d-1.  The dispatcher only ever       *)
(* compares a frame pointer with botframe, stopframe or Py_None, and a     *)
(* frame it holds a reference to cannot be freed, so a reference to a      *)
(* frame that has returned is equal to no live frame: all such references  *)
(* are the one value GoneFrame.                                            *)
(***************************************************************************)
EXTENDS Integers, Sequences, FiniteSets, TLC

\* ------------------------------------------------------------- bounds
\* The deepest call stack the host builds.
MaxDepth == 2

\* ------------------------------------------------------------ encodings
\* Py_None where a frame reference is expected (botframe, stopframe, topframe).
Py_None == 0
\* A reference kept to a frame that has since returned.
GoneFrame == -1

\* --------------------------------------------------- the debugged program
\* Code units (PyCodeObject).  U is defined in a.py at line 5; W is a one-line
\* function defined inside U, at line 6 of a.py; V is defined in b.py.  The
\* program is U calling V or W, calling U ..., as deep as MaxDepth allows.
Units == {"U", "V", "W"}

co_filename(u) == IF u = "V" THEN "b.py" ELSE "a.py"

\* The units that can run in the frame at depth d.
Callees(d) == IF d % 2 = 1 THEN {"U"} ELSE {"V", "W"}

co_firstlineno(u) == CASE u = "U" -> 5 [] u = "W" -> 6 [] OTHER -> 12

\* The lines of a unit a line event can report.
CodeLines(u) == CASE u = "U" -> {7, 25} [] u = "W" -> {6} [] OTHER -> {20}

\* Every value f_lineno takes in a frame of u (co_firstlineno at the call event).
FrameLines(u) == CodeLines(u) \cup {co_firstlineno(u)}

\* The values the front end gives stop_lineno: -1 (never), 0 (no threshold), a line.
StopLinenos == {-1, 0, 20}

\* ------------------------------------------------------------- state
VARIABLES
    bdb,            \* the BdbTracer object (its fields)
    stack,          \* the host's call stack: frames with f_code and f_trace
    c_tracefunc,    \* tstate->c_tracefunc: "NULL" or "tracer"
    c_profilefunc,  \* tstate->c_profilefunc: "NULL" or "profiler"
    last            \* what the last operation was and what the dispatcher did in it

tvars == <<bdb, stack, c_tracefunc, c_profilefunc, last>>

\* The process the pdbhandler extension is loaded in (_pdbhandler-py3.c).
VARIABLES
    pdbhandler,     \* the module's statics and what they refer to in the process
    history,        \* the attach sessions so far (not program state)
    alast           \* the last operation of the attach machinery and its result

avars == <<pdbhandler, history, alast>>

vars == <<bdb, stack, c_tracefunc, c_profilefunc, last, pdbhandler, history, alast>>

\* The world a handler runs in: the variables above, and the callbacks it has invoked.
World == [bdb |-> bdb, stack |-> stack, ct |-> c_tracefunc, cp |-> c_profilefunc,
          calls |-> <<>>]

\* ------------------------------------------------------- small helpers
Max(S) == CHOOSE x \in S : \A y \in S : y <= x

\* PyList_GET_SIZE(self->linenumbers): the list is indexed by raw line number.
LnSize(w) == IF w.bdb.linenumbers = {} THEN 0 ELSE Max(w.bdb.linenumbers) + 1

\* PyList_GET_ITEM(self->linenumbers, i) != Py_None
LnInterned(w, i) == i \in w.bdb.linenumbers

\* frame->f_back, NULL (0) for the oldest frame
f_back(f) == f - 1

\* A function's result: the world it leaves and the value it returns.
R(w, res) == [w |-> w, res |-> res]

\* ------------------------------------------------ what the front end supplies
\* The module the front end's is_skipped_module() override matches against
\* skip_modules (the base method, _bdbmodule-py27.c:740, is overridden by Bdb).
is_skipped_module(w, f) == co_filename(w.stack[f].f_code) \in w.bdb.skip_modules

\* What a user_xxx callback and the get_traceobj() call that follows it may do:
\*   raise     the callback raises
\*   set       it gives stopframe and stop_lineno new values
\*   off       it calls settrace(False)
\*   traceobj  what get_traceobj() returns: "self", "None" or "NULL" (it raises)
Cmd(raise, set, sf, sl, off, traceobj) ==
    [raise |-> raise, set |-> set, stopframe |-> sf, stop_lineno |-> sl,
     off |-> off, traceobj |-> traceobj]

KeepCmd == Cmd(FALSE, FALSE, Py_None, 0, FALSE, "self")

\* The stop policies the front end's commands install from a callback in
\* frame n: step, continue, and next, until and return on that frame.
StopTargets(n) ==
    {<<Py_None, 0>>, <<Py_None, -1>>} \cup {<<n, sl>> : sl \in StopLinenos}

\* The answers a callback may give.
Commands(n) ==
    {Cmd(FALSE, TRUE, t[1], t[2], FALSE, "self") : t \in StopTargets(n)}
    \cup {KeepCmd,
          Cmd(FALSE, FALSE, Py_None, 0, FALSE, "None"),
          Cmd(FALSE, FALSE, Py_None, 0, TRUE, "None"),
          Cmd(FALSE, FALSE, Py_None, 0, FALSE, "NULL"),
          Cmd(TRUE, FALSE, Py_None, 0, FALSE, "NULL")}

\* The inputs of one event: the callback's answer, what the stop_tracing()
\* override does ("ok": nothing, as the base method; "off": settrace(False);
\* "raise"), and whether is_skipped_module() returns or raises.
Input(cmd, st, skip_ok) == [cmd |-> cmd, st |-> st, skip_ok |-> skip_ok]

DefaultInput == Input(KeepCmd, "ok", TRUE)

\* ------------------------------------------------------ BdbTracer methods
BdbTracer_gettrace(w) == IF w.ct # "NULL" \/ w.cp # "NULL" THEN "self" ELSE "None"

BdbTracer_settrace(w, do_set) ==
    IF do_set THEN [w EXCEPT !.ct = "tracer", !.cp = "NULL"]
    ELSE [w EXCEPT !.ct = "NULL", !.cp = "NULL"]

\* reset() that also empties the one-entry cache of the breakpoint index.
BdbTracer_reset_cache(w, ignore, botframe) ==
    [w EXCEPT !.bdb.ignore_first_call_event = (ignore # "False"),
              !.bdb.botframe = botframe,
              !.bdb.quitting = FALSE,
              !.bdb.topframe = Py_None,
              !.bdb.topframe_locals = "None",
              !.bdb.stopframe = Py_None,
              !.bdb.stop_lineno = 0,
              !.bdb.module_bps = "NULL",
              !.bdb.code_bps = <<>>,
              !.bdb.f_code = "NULL"]

\* reset() that stores the former botframe in stopframe.
BdbTracer_reset_stale(w, ignore, botframe) ==
    [w EXCEPT !.bdb.ignore_first_call_event = (ignore # "False"),
              !.bdb.botframe = botframe,
              !.bdb.quitting = FALSE,
              !.bdb.topframe = Py_None,
              !.bdb.topframe_locals = "None",
              !.bdb.stopframe = w.bdb.botframe,
              !.bdb.stop_lineno = 0]

\* reset(): ignore is "absent", "True" or "False"; botframe is Py_None when
\* the argument is absent.
BdbTracer_reset(w, ignore, botframe) ==
    [w EXCEPT !.bdb.ignore_first_call_event = (ignore # "False"),
              !.bdb.botframe = botframe,
              !.bdb.quitting = FALSE,
              !.bdb.topframe = Py_None,
              !.bdb.topframe_locals = "None",
              !.bdb.stopframe = Py_None,
              !.bdb.stop_lineno = 0]

\* stop_here() without the test of the threshold -1.
stop_here_always_threshold(w, f, ln, in) ==
    IF w.bdb.skip_modules # {} /\ ~in.skip_ok THEN -1
    ELSE IF w.bdb.skip_modules # {} /\ is_skipped_module(w, f) THEN 0
    ELSE IF f = w.bdb.stopframe \/ w.bdb.stopframe = Py_None
         THEN IF ln >= w.bdb.stop_lineno THEN 1 ELSE 0
         ELSE 0

\* stop_here() with the threshold compared strictly.
stop_here_strict(w, f, ln, in) ==
    IF w.bdb.skip_modules # {} /\ ~in.skip_ok THEN -1
    ELSE IF w.bdb.skip_modules # {} /\ is_skipped_module(w, f) THEN 0
    ELSE IF f = w.bdb.stopframe \/ w.bdb.stopframe = Py_None
         THEN IF w.bdb.stop_lineno = -1 THEN 0
              ELSE IF ln > w.bdb.stop_lineno THEN 1 ELSE 0
         ELSE 0

\* stop_here(): -1 (error), 0 or 1.  ln is frame->f_lineno.
stop_here(w, f, ln, in) ==
    IF w.bdb.skip_modules # {} /\ ~in.skip_ok THEN -1
    ELSE IF w.bdb.skip_modules # {} /\ is_skipped_module(w, f) THEN 0
    ELSE IF f = w.bdb.stopframe \/ w.bdb.stopframe = Py_None
         THEN IF w.bdb.stop_lineno = -1 THEN 0
              ELSE IF ln >= w.bdb.stop_lineno THEN 1 ELSE 0
         ELSE 0

\* The code_bps dictionary a reference names: the line-set of <<file, firstlineno>>.
CodeBps(w, ref) == w.bdb.breakpoints[ref[1]][ref[2]]

\* bkpt_in_code() that stores the frame's code unit in the cache before the
\* lookups.
bkpt_in_code_eager(w, f) ==
    LET code == w.stack[f].f_code
        filename == co_filename(code)
        first == co_firstlineno(code)
    IN IF /\ filename \in DOMAIN w.bdb.breakpoints
          /\ first < LnSize(w)
          /\ LnInterned(w, first)
          /\ first \in DOMAIN w.bdb.breakpoints[filename]
       THEN R([w EXCEPT !.bdb.module_bps = filename,
                        !.bdb.code_bps = <<filename, first>>,
                        !.bdb.f_code = code],
              filename)
       ELSE R([w EXCEPT !.bdb.f_code = code], "None")

\* bkpt_in_code() that resolves on the module alone: any breakpoint of the
\* frame's file counts for the frame.
bkpt_in_code_module(w, f) ==
    LET code == w.stack[f].f_code
        filename == co_filename(code)
    IN IF filename \in DOMAIN w.bdb.breakpoints /\ w.bdb.breakpoints[filename] # <<>>
       THEN R([w EXCEPT !.bdb.module_bps = filename,
                        !.bdb.code_bps = <<filename,
                                           CHOOSE k \in DOMAIN w.bdb.breakpoints[filename] :
                                              TRUE>>,
                        !.bdb.f_code = code],
              filename)
       ELSE R(w, "None")

\* bkpt_in_code(): the module_bps of the frame's file ("None" when its code
\* unit has no code_bps); a successful resolution refills the one-entry cache.
bkpt_in_code(w, f) ==
    LET code == w.stack[f].f_code
        filename == co_filename(code)
        first == co_firstlineno(code)
    IN IF /\ filename \in DOMAIN w.bdb.breakpoints
          /\ first < LnSize(w)
          /\ LnInterned(w, first)
          /\ first \in DOMAIN w.bdb.breakpoints[filename]
       THEN R([w EXCEPT !.bdb.module_bps = filename,
                        !.bdb.code_bps = <<filename, first>>,
                        !.bdb.f_code = code],
              filename)
       ELSE R(w, "None")

\* bkpt_at_line() with the bound of the linenumbers list off by one.
bkpt_at_line_short(w, f, ln) ==
    LET hit == w.stack[f].f_code = w.bdb.f_code
        r == IF hit THEN R(w, w.bdb.module_bps) ELSE bkpt_in_code(w, f)
    IN IF r.res = "None" THEN r
       ELSE IF /\ ln < LnSize(r.w) - 1
               /\ LnInterned(r.w, ln)
               /\ ln \in CodeBps(r.w, r.w.bdb.code_bps)
            THEN r
            ELSE R(r.w, "None")

\* bkpt_at_line(): the module_bps when a breakpoint is set at ln, else "None".
bkpt_at_line(w, f, ln) ==
    LET hit == w.stack[f].f_code = w.bdb.f_code
        r == IF hit THEN R(w, w.bdb.module_bps) ELSE bkpt_in_code(w, f)
    IN IF r.res = "None" THEN r
       ELSE IF /\ ln < LnSize(r.w)
               /\ LnInterned(r.w, ln)
               /\ ln \in CodeBps(r.w, r.w.bdb.code_bps)
            THEN r
            ELSE R(r.w, "None")

\* The Python-level callback inside user_method(): the front end's effects.
user_callback(w, f, cmd) ==
    LET w1 == IF cmd.set
              THEN [w EXCEPT !.bdb.stopframe = cmd.stopframe,
                             !.bdb.stop_lineno = cmd.stop_lineno]
              ELSE w
    IN IF cmd.off THEN BdbTracer_settrace(w1, FALSE) ELSE w1

\* user_method(): botframe and topframe bookkeeping around a user callback,
\* then get_traceobj().
user_method(w, f, name, arg, in) ==
    LET w1 == [w EXCEPT !.bdb.botframe = IF @ = Py_None THEN f ELSE @,
                        !.bdb.topframe = f,
                        !.bdb.topframe_locals = "None",
                        !.calls = Append(@, <<name, arg>>)]
    IN IF in.cmd.raise
       THEN R(w1, "NULL")
       ELSE R([user_callback(w1, f, in.cmd) EXCEPT !.bdb.topframe = Py_None,
                                                   !.bdb.topframe_locals = "None"],
              in.cmd.traceobj)

\* swap_tracer_profiler() without PyEval_SetTrace(NULL, NULL).
swap_tracer_profiler_both(w) ==
    IF BdbTracer_gettrace(w) # "None"
    THEN [w EXCEPT !.cp = "profiler"]
    ELSE w

\* swap_tracer_profiler() without the gettrace() test.
swap_tracer_profiler_always(w) == [w EXCEPT !.cp = "profiler", !.ct = "NULL"]

\* swap_tracer_profiler() with the gettrace() test inverted.
swap_tracer_profiler_inverted(w) ==
    IF BdbTracer_gettrace(w) = "None"
    THEN [w EXCEPT !.cp = "profiler", !.ct = "NULL"]
    ELSE w

swap_tracer_profiler(w) ==
    IF BdbTracer_gettrace(w) # "None"
    THEN [w EXCEPT !.cp = "profiler", !.ct = "NULL"]
    ELSE w

\* trace_call() without the test of skip_calls.
trace_call_noskip(w, f, in) ==
    IF w.bdb.ignore_first_call_event
    THEN R([w EXCEPT !.bdb.ignore_first_call_event = FALSE], "self")
    ELSE LET rc == stop_here(w, f, co_firstlineno(w.stack[f].f_code), in)
             b == bkpt_in_code(w, f)
         IN IF rc = -1 THEN R(w, "NULL")
            ELSE IF rc = 0 /\ b.res = "None" THEN R(b.w, "None")
            ELSE IF rc = 1 THEN user_method(b.w, f, "user_call", "arg", in)
            ELSE R(b.w, "self")

\* trace_call() that leaves the ignore-first-call flag set.
trace_call_sticky(w, f, in) ==
    IF w.bdb.ignore_first_call_event
    THEN R(w, "self")
    ELSE IF w.stack[f].f_code \in w.bdb.skip_calls THEN R(w, "None")
    ELSE LET rc == stop_here(w, f, co_firstlineno(w.stack[f].f_code), in)
             b == bkpt_in_code(w, f)
         IN IF rc = -1 THEN R(w, "NULL")
            ELSE IF rc = 0 /\ b.res = "None" THEN R(b.w, "None")
            ELSE IF rc = 1 THEN user_method(b.w, f, "user_call", "arg", in)
            ELSE R(b.w, "self")

\* trace_call() that invokes user_call also when only the breakpoint index
\* is interested in the frame.
trace_call_always_user(w, f, in) ==
    IF w.bdb.ignore_first_call_event
    THEN R([w EXCEPT !.bdb.ignore_first_call_event = FALSE], "self")
    ELSE IF w.stack[f].f_code \in w.bdb.skip_calls THEN R(w, "None")
    ELSE LET rc == stop_here(w, f, co_firstlineno(w.stack[f].f_code), in)
             b == bkpt_in_code(w, f)
         IN IF rc = -1 THEN R(w, "NULL")
            ELSE IF rc = 0 /\ b.res = "None" THEN R(b.w, "None")
            ELSE user_method(b.w, f, "user_call", "arg", in)

trace_call(w, f, in) ==
    IF w.bdb.ignore_first_call_event
    THEN R([w EXCEPT !.bdb.ignore_first_call_event = FALSE], "self")
    ELSE IF w.stack[f].f_code \in w.bdb.skip_calls THEN R(w, "None")
    ELSE LET rc == stop_here(w, f, co_firstlineno(w.stack[f].f_code), in)
             b == bkpt_in_code(w, f)
         IN IF rc = -1 THEN R(w, "NULL")
            ELSE IF rc = 0 /\ b.res = "None" THEN R(b.w, "None")
            ELSE IF rc = 1 THEN user_method(b.w, f, "user_call", "arg", in)
            ELSE R(b.w, "self")

\* The stop_tracing() override, called when the botframe returns.
stop_tracing(w, in) ==
    LET w1 == [w EXCEPT !.calls = Append(@, <<"stop_tracing", "frame">>)]
    IN CASE in.st = "raise" -> R(w1, "NULL")
         [] in.st = "off" -> R(BdbTracer_settrace(w1, FALSE), "None")
         [] OTHER -> R(w1, "None")

\* The promotion that leaves the step target as it is.
promote_caller_keep_target(w, f) ==
    LET back == f_back(f)
    IN IF back # 0 /\ w.stack[back].f_trace = "NULL"
       THEN [w EXCEPT !.stack[back].f_trace = "self"]
       ELSE w

\* The promotion without the caller's hook: only the step target is cleared.
promote_caller_target_only(w, f) ==
    [w EXCEPT !.bdb.stopframe = Py_None, !.bdb.stop_lineno = 0]

\* trace_return(), lines 586-606: the caller regains its line-level hook and
\* the step target is cleared.
promote_caller(w, f) ==
    LET back == f_back(f)
        w1 == IF back # 0 /\ w.stack[back].f_trace = "NULL"
              THEN [w EXCEPT !.stack[back].f_trace = "self"]
              ELSE w
    IN [w1 EXCEPT !.bdb.stopframe = Py_None, !.bdb.stop_lineno = 0]

\* trace_return() that promotes the caller of the botframe as well.
trace_return_promote_botframe(w, f, ln, in) ==
    LET rc == stop_here(w, f, ln, in)
        u == user_method(w, f, "user_return", "arg", in)
        called == rc = 1 \/ f = w.bdb.stopframe
        w1 == IF ~called THEN w
              ELSE IF \/ u.w.bdb.stopframe = Py_None /\ u.w.bdb.stop_lineno = 0
                      \/ f = u.w.bdb.stopframe
                   THEN promote_caller(u.w, f)
                   ELSE u.w
    IN IF rc = -1 THEN R(w, "NULL")
       ELSE IF called /\ u.res = "NULL" THEN R(u.w, "NULL")
       ELSE IF called /\ u.res = "None" THEN R(u.w, "None")
       ELSE IF f = w1.bdb.botframe THEN stop_tracing(w1, in)
       ELSE R(w1, "self")

\* trace_return() that does not call stop_tracing() when the botframe returns.
trace_return_silent(w, f, ln, in) ==
    LET rc == stop_here(w, f, ln, in)
        u == user_method(w, f, "user_return", "arg", in)
        called == rc = 1 \/ f = w.bdb.stopframe
        w1 == IF ~called THEN w
              ELSE IF /\ f # u.w.bdb.botframe
                      /\ \/ u.w.bdb.stopframe = Py_None /\ u.w.bdb.stop_lineno = 0
                         \/ f = u.w.bdb.stopframe
                   THEN promote_caller(u.w, f)
                   ELSE u.w
    IN IF rc = -1 THEN R(w, "NULL")
       ELSE IF called /\ u.res = "NULL" THEN R(u.w, "NULL")
       ELSE IF called /\ u.res = "None" THEN R(u.w, "None")
       ELSE IF f = w1.bdb.botframe THEN R(w1, "None")
       ELSE R(w1, "self")

trace_return(w, f, ln, in) ==
    LET rc == stop_here(w, f, ln, in)
        u == user_method(w, f, "user_return", "arg", in)
        called == rc = 1 \/ f = w.bdb.stopframe
        w1 == IF ~called THEN w
              ELSE IF /\ f # u.w.bdb.botframe
                      /\ \/ u.w.bdb.stopframe = Py_None /\ u.w.bdb.stop_lineno = 0
                         \/ f = u.w.bdb.stopframe
                   THEN promote_caller(u.w, f)
                   ELSE u.w
    IN IF rc = -1 THEN R(w, "NULL")
       ELSE IF called /\ u.res = "NULL" THEN R(u.w, "NULL")
       ELSE IF called /\ u.res = "None" THEN R(u.w, "None")
       ELSE IF f = w1.bdb.botframe THEN stop_tracing(w1, in)
       ELSE R(w1, "self")

\* tracer(), case PyTrace_LINE, with the breakpoint index consulted first.
trace_line_bkpt_first(w, f, ln, in) ==
    LET rc == stop_here(w, f, ln, in)
        b == bkpt_at_line(w, f, ln)
    IN IF rc = -1 THEN R(w, "NULL")
       ELSE IF b.res # "None" THEN user_method(b.w, f, "bkpt_user_line", b.res, in)
       ELSE IF rc = 1 THEN user_method(b.w, f, "user_line", "-", in)
       ELSE R(b.w, "self")

\* tracer(), case PyTrace_LINE, reporting a breakpoint hit through user_line.
trace_line_user(w, f, ln, in) ==
    LET rc == stop_here(w, f, ln, in)
        b == bkpt_at_line(w, f, ln)
    IN IF rc = -1 THEN R(w, "NULL")
       ELSE IF rc = 1 THEN user_method(w, f, "user_line", "-", in)
       ELSE IF b.res = "None" THEN R(b.w, "self")
       ELSE user_method(b.w, f, "user_line", "-", in)

\* tracer(), case PyTrace_LINE
trace_line(w, f, ln, in) ==
    LET rc == stop_here(w, f, ln, in)
        b == bkpt_at_line(w, f, ln)
    IN IF rc = -1 THEN R(w, "NULL")
       ELSE IF rc = 1 THEN user_method(w, f, "user_line", "-", in)
       ELSE IF b.res = "None" THEN R(b.w, "self")
       ELSE user_method(b.w, f, "bkpt_user_line", b.res, in)

\* tracer(), case PyTrace_EXCEPTION, consulting the breakpoint index as the
\* case of a line event does.
trace_exception_bkpt(w, f, ln, in) ==
    LET rc == stop_here(w, f, ln, in)
        b == bkpt_at_line(w, f, ln)
    IN IF rc = -1 THEN R(w, "NULL")
       ELSE IF rc = 1 THEN user_method(w, f, "user_exception", "arg", in)
       ELSE IF b.res = "None" THEN R(b.w, "self")
       ELSE user_method(b.w, f, "bkpt_user_line", b.res, in)

\* tracer(), case PyTrace_EXCEPTION
trace_exception(w, f, ln, in) ==
    LET rc == stop_here(w, f, ln, in)
    IN IF rc = -1 THEN R(w, "NULL")
       ELSE IF rc = 1 THEN user_method(w, f, "user_exception", "arg", in)
       ELSE R(w, "self")

\* tracer(), label exit: returning to a calling frame where lines are not traced.
tracer_exit(w, f, what) ==
    IF /\ what = "return"
       /\ f # w.bdb.botframe
       /\ f_back(f) # 0
       /\ w.stack[f_back(f)].f_trace = "NULL"
    THEN swap_tracer_profiler(w)
    ELSE w

\* tracer(), label fail, without PyEval_SetTrace(NULL, NULL).
tracer_fail_keep(w, f) == [w EXCEPT !.stack[f].f_trace = "NULL"]

\* tracer(), label fail
tracer_fail(w, f) == [w EXCEPT !.ct = "NULL", !.stack[f].f_trace = "NULL"]

\* tracer(), label fin, swapping to the coarse hook at a call event only when
\* no frame of the stack has a line-level hook.
tracer_fin_guarded(r, f, what) ==
    IF r.res = "NULL" THEN R(tracer_fail(r.w, f), "Fatal")
    ELSE IF r.res # "None"
         THEN R(tracer_exit([r.w EXCEPT !.stack[f].f_trace = "self"], f, what), "Keep")
         ELSE R(tracer_exit(IF /\ what = "call"
                               /\ \A g \in 1..Len(r.w.stack) : r.w.stack[g].f_trace = "NULL"
                            THEN swap_tracer_profiler(r.w) ELSE r.w,
                            f, what),
                "Uninstall")

\* tracer(), label fin: r is what the event's case left (its result and the
\* world); the result decides the frame's f_trace and the directive.
tracer_fin(r, f, what) ==
    IF r.res = "NULL" THEN R(tracer_fail(r.w, f), "Fatal")
    ELSE IF r.res # "None"
         THEN R(tracer_exit([r.w EXCEPT !.stack[f].f_trace = "self"], f, what), "Keep")
         ELSE R(tracer_exit(IF what = "call" THEN swap_tracer_profiler(r.w) ELSE r.w,
                            f, what),
                "Uninstall")

\* tracer(): the full-level hook.  The result is the directive: "Keep" (a hook
\* is stored in f_trace), "Uninstall" (Py_None), "Fatal" (-1), or "none" when
\* the event is dropped because the frame has no line-level hook.
tracer(w, f, what, ln, in) ==
    IF what # "call" /\ w.stack[f].f_trace = "NULL"
    THEN R(tracer_exit(w, f, what), "none")
    ELSE tracer_fin(CASE what = "line" -> trace_line(w, f, ln, in)
                      [] what = "call" -> trace_call(w, f, in)
                      [] what = "return" -> trace_return(w, f, ln, in)
                      [] OTHER -> trace_exception(w, f, ln, in),
                    f, what)

\* profiler() whose return case never reinstalls the full hook.
profiler_return_coarse(w, f, what, in) ==
    IF what = "call"
    THEN LET r == trace_call(w, f, in)
         IN IF r.res = "NULL" THEN R([r.w EXCEPT !.cp = "NULL"], "Fatal")
            ELSE IF r.res # "None"
                 THEN R([r.w EXCEPT !.stack[f].f_trace = "self",
                                    !.ct = "tracer", !.cp = "NULL"], "Keep")
                 ELSE R(r.w, "Uninstall")
    ELSE IF what = "return"
    THEN IF f = w.bdb.botframe THEN R([w EXCEPT !.cp = "NULL"], "none")
         ELSE R(w, "none")
    ELSE R(w, "none")

\* profiler(): the coarse hook (call and return events only).
profiler(w, f, what, in) ==
    IF what = "call"
    THEN LET r == trace_call(w, f, in)
         IN IF r.res = "NULL" THEN R([r.w EXCEPT !.cp = "NULL"], "Fatal")
            ELSE IF r.res # "None"
                 THEN R([r.w EXCEPT !.stack[f].f_trace = "self",
                                    !.ct = "tracer", !.cp = "NULL"], "Keep")
                 ELSE R(r.w, "Uninstall")
    ELSE IF what = "return"
    THEN IF f = w.bdb.botframe THEN R([w EXCEPT !.cp = "NULL"], "none")
         ELSE IF f_back(f) = 0 \/ w.stack[f_back(f)].f_trace # "NULL"
              THEN R([w EXCEPT !.ct = "tracer", !.cp = "NULL"], "none")
              ELSE R(w, "none")
    ELSE R(w, "none")

\* -------------------------------------------------------------- the host
\* How the evaluation loop delivers one event: to c_tracefunc when it is set,
\* and then, for a call or a return, to c_profilefunc when it is set (also when
\* the trace function has just installed it).  Line and exception events go to
\* the trace function only (_bdbmodule-py27.c:7-14).
Delivered(traced, again, t, p) ==
    [w |-> p.w,
     via |-> IF traced THEN (IF again THEN "both" ELSE "tracer")
             ELSE IF again THEN "profiler" ELSE "none",
     directive |-> IF traced THEN t.res ELSE p.res,
     second |-> IF traced /\ again THEN p.res ELSE "none"]

\* The second half: t is what the trace function left.
DeliverProfile(traced, t, f, what, in) ==
    LET again == /\ t.w.cp = "profiler"
                 /\ what \in {"call", "return"}
                 /\ t.res # "Fatal"
    IN Delivered(traced, again, t,
                 IF again THEN profiler(t.w, f, what, in) ELSE R(t.w, "none"))

Deliver(w, f, what, ln, in) ==
    DeliverProfile(w.ct = "tracer",
                   IF w.ct = "tracer" THEN tracer(w, f, what, ln, in) ELSE R(w, "none"),
                   f, what, in)

\* The inputs that can make a difference to the event: a callback's answer is
\* read only when a callback is invoked, the outcome of stop_tracing() only
\* when it is called, that of is_skipped_module() only when there are skip rules.
InputsAfter(w, d) ==
    LET names == {d.w.calls[i][1] : i \in 1..Len(d.w.calls)}
    IN {DefaultInput}
       \cup (IF names \ {"stop_tracing"} # {}
             THEN {Input(c, "ok", TRUE) : c \in Commands(Len(w.stack))}
             ELSE {})
       \cup (IF "stop_tracing" \in names
             THEN {Input(KeepCmd, "off", TRUE), Input(KeepCmd, "raise", TRUE)}
             ELSE {})
       \cup (IF w.bdb.skip_modules # {} /\ d.via # "none"
             THEN {Input(KeepCmd, "ok", FALSE)}
             ELSE {})

Inputs(w, f, what, ln) == InputsAfter(w, Deliver(w, f, what, ln, DefaultInput))

\* The frame on top of the stack is gone: references to it no longer name a
\* frame of the stack.
Gone(ref, n) == IF ref = n THEN GoneFrame ELSE ref

PopFrame(w) ==
    LET n == Len(w.stack)
    IN [w EXCEPT !.stack = SubSeq(@, 1, n - 1),
                 !.bdb.botframe = Gone(@, n),
                 !.bdb.stopframe = Gone(@, n),
                 !.bdb.topframe = Gone(@, n)]

\* What is remembered of the last operation: the event delivered ("frontend"
\* for a method the front end called), the hooks it went through, the
\* callbacks the dispatcher invoked, the directive it returned, whether the
\* event used up the ignore-first-call flag, and whether a return event gave
\* the caller, which had none, its line-level hook.
Obs(what, d) ==
    [what |-> what, via |-> d.via, calls |-> d.w.calls, directive |-> d.directive,
     ignored |-> bdb.ignore_first_call_event /\ ~d.w.bdb.ignore_first_call_event,
     promoted |-> /\ what = "return"
                  /\ Len(stack) >= 2
                  /\ stack[Len(stack) - 1].f_trace = "NULL"
                  /\ d.w.stack[Len(stack) - 1].f_trace = "self"]

FrontEndObs ==
    [what |-> "frontend", via |-> "none", calls |-> <<>>, directive |-> "none",
     ignored |-> FALSE, promoted |-> FALSE]

Commit(w, o) ==
    /\ bdb' = w.bdb
    /\ stack' = w.stack
    /\ c_tracefunc' = w.ct
    /\ c_profilefunc' = w.cp
    /\ last' = o
    /\ UNCHANGED avars

\* A function of the debugged program is entered.
NewFrame(w, u) == [w EXCEPT !.stack = Append(@, [f_code |-> u, f_trace |-> "NULL"])]

CallEvent(u, in) ==
    /\ Len(stack) < MaxDepth
    /\ \E d \in {Deliver(NewFrame(World, u), Len(stack) + 1,
                           "call", co_firstlineno(u), in)} :
          Commit(IF d.directive = "Fatal" \/ d.second = "Fatal"
                 THEN PopFrame(d.w) ELSE d.w,
                 Obs("call", d))

\* The running frame reaches a new line.
LineEvent(ln, in) ==
    /\ stack # <<>>
    /\ c_tracefunc = "tracer"
    /\ \E d \in {Deliver(World, Len(stack), "line", ln, in)} :
          Commit(d.w, Obs("line", d))

\* An exception is raised in, or propagates through, the running frame.
ExceptionEvent(ln, in) ==
    /\ stack # <<>>
    /\ c_tracefunc = "tracer"
    /\ \E d \in {Deliver(World, Len(stack), "exception", ln, in)} :
          Commit(d.w, Obs("exception", d))

\* The running frame returns (or is unwound); the host then drops it.
ReturnEvent(ln, in) ==
    /\ stack # <<>>
    /\ \E d \in {Deliver(World, Len(stack), "return", ln, in)} :
          Commit(PopFrame(d.w), Obs("return", d))

\* ---------------------------------------------------------- the front end
Reset(ignore, botframe) ==
    Commit(BdbTracer_reset(World, ignore, botframe),
           [FrontEndObs EXCEPT !.what = "reset"])

SetTrace(do_set) ==
    Commit(BdbTracer_settrace(World, do_set), FrontEndObs)

\* The front end sets a breakpoint at line ln of unit u: it creates the
\* module's and the unit's dictionaries when they are missing and interns the
\* two line numbers.
set_break(w, u, ln) ==
    LET file == co_filename(u)
        first == co_firstlineno(u)
        old == w.bdb.breakpoints
        mod == IF file \in DOMAIN old THEN old[file] ELSE [k \in {} |-> {}]
        lines == IF first \in DOMAIN mod THEN mod[first] ELSE {}
        mod1 == [k \in DOMAIN mod \cup {first} |->
                    IF k = first THEN lines \cup {ln} ELSE mod[k]]
    IN [w EXCEPT !.bdb.breakpoints =
                    [x \in DOMAIN old \cup {file} |-> IF x = file THEN mod1 ELSE old[x]],
                 !.bdb.linenumbers = @ \cup {first, ln}]

\* The front end clears it: the dictionaries stay, even when they become empty.
clear_break(w, u, ln) ==
    [w EXCEPT !.bdb.breakpoints[co_filename(u)][co_firstlineno(u)] = @ \ {ln}]

HasBreak(w, u, ln) ==
    /\ co_filename(u) \in DOMAIN w.bdb.breakpoints
    /\ co_firstlineno(u) \in DOMAIN w.bdb.breakpoints[co_filename(u)]
    /\ ln \in w.bdb.breakpoints[co_filename(u)][co_firstlineno(u)]

SetBreak(u, ln) ==
    /\ ~HasBreak(World, u, ln)
    /\ Commit(set_break(World, u, ln), [FrontEndObs EXCEPT !.what = "set_break"])

ClearBreak(u, ln) ==
    /\ HasBreak(World, u, ln)
    /\ Commit(clear_break(World, u, ln), FrontEndObs)

\* The front end stores the dispatcher in a frame's f_trace (frame.f_trace =
\* self.trace_dispatch), as it does for the frames of the stack when a session
\* starts in the middle of a program.
SetFrameTrace(f) ==
    /\ stack[f].f_trace = "NULL"
    /\ Commit([World EXCEPT !.stack[f].f_trace = "self"],
              FrontEndObs)

\* ------------------------------------------------------ the specification
\* The lines a breakpoint can be set on.
BreakLines(u) == IF u = "U" THEN {7} ELSE {}

\* The skip rules a tracer is constructed with: none; the module of V
\* skipped and the calls of U ignored; the module of U and W skipped.
SkipConfigs == {[skip_modules |-> {}, skip_calls |-> {}],
                [skip_modules |-> {"b.py"}, skip_calls |-> {"U"}],
                [skip_modules |-> {"a.py"}, skip_calls |-> {}]}

\* BdbTracer_init(): the fields after construction (reset() is called last).
NewTracer(cfg) ==
    [breakpoints |-> [x \in {} |-> {}],
     botframe |-> Py_None,
     quitting |-> FALSE,
     topframe |-> Py_None,
     topframe_locals |-> "None",
     stopframe |-> Py_None,
     stop_lineno |-> 0,
     skip_modules |-> cfg.skip_modules,
     skip_calls |-> cfg.skip_calls,
     linenumbers |-> {},
     ignore_first_call_event |-> TRUE,
     module_bps |-> "NULL",
     code_bps |-> <<>>,
     f_code |-> "NULL"]

TracerInit ==
    /\ \E cfg \in SkipConfigs : bdb = NewTracer(cfg)
    /\ stack = <<>>
    /\ c_tracefunc = "NULL"
    /\ c_profilefunc = "NULL"
    /\ last = FrontEndObs

Next ==
    \/ \E u \in Callees(Len(stack) + 1) :
          \E in \in Inputs(NewFrame(World, u), Len(stack) + 1, "call",
                            co_firstlineno(u)) :
             CallEvent(u, in)
    \/ /\ stack # <<>>
       /\ \E ln \in CodeLines(stack[Len(stack)].f_code) :
             \E in \in Inputs(World, Len(stack), "line", ln) : LineEvent(ln, in)
    \/ /\ stack # <<>>
       /\ \E ln \in CodeLines(stack[Len(stack)].f_code) :
             \E in \in Inputs(World, Len(stack), "exception", ln) : ExceptionEvent(ln, in)
    \/ /\ stack # <<>>
       /\ \E ln \in CodeLines(stack[Len(stack)].f_code) :
             \E in \in Inputs(World, Len(stack), "return", ln) : ReturnEvent(ln, in)
    \/ \E ignore \in {"absent", "True", "False"} :
          \E b \in {Py_None} \cup (1..Len(stack)) : Reset(ignore, b)
    \/ \E b \in BOOLEAN : SetTrace(b)
    \/ \E u \in Units : \E ln \in BreakLines(u) : SetBreak(u, ln)
    \/ \E u \in Units : \E ln \in BreakLines(u) : ClearBreak(u, ln)
    \/ \E f \in 1..Len(stack) : SetFrameTrace(f)

\* =====================================================================
\* The remote-attach bootstrap: lib/pdb_clone/_pdbhandler-py3.c
\* =====================================================================
\* The slots of the host's pending-call queue.
MaxPending == 1

\* The register() calls a run makes (each builds one address dictionary).
MaxRegistrations == 2

\* The attach sessions a run goes through.
MaxSessions == 2

SIGUSR1 == 10

NSIG == 65

\* The signal numbers register() is called with (0 stands for the default).
Signums == {-1, 0, SIGUSR1, 12}

\* The dispositions of the signals when the module is loaded: the default
\* action for SIGUSR1, a handler of the program for signal 12.
Dispositions == [s \in {SIGUSR1, 12} |-> IF s = SIGUSR1 THEN "SIG_DFL" ELSE "app"]

\* What register() is given as host and port: nothing, or both.
HostPorts == {"None", "remote"}

\* The statics of the module, and what they refer to:
\*   signum, address   pdbhandler_signal (address 0 is NULL; an address
\*                     dictionary is alive while pdbhandler_signal refers to it)
\*   previous          pdbhandler_signal.previous, the disposition saved
\*   host_port         what the address dictionary holds: "None" (no host, no
\*                     port) or "remote" (a host and a port)
\*   disp              the disposition of each signal: "SIG_DFL", "app" (a
\*                     handler of the program) or "_pdbhandler"
\*   tstate            the current thread state: "main", "sub" or "NULL"
\*   atexit            atexit_register()'s static flag
\*   naddr             the address dictionaries built so far
\*   inflight          the signals delivered whose handler has not run yet
\*   pending           the host's pending calls of bootstrappdb (their args)
\*   current_pdbctx    "NULL" or "ctx"
\*   contexts          the pdbtracerctxobject instances alive
\*   subinterps        the sub-interpreters alive
\*   hook              c_tracefunc of the main thread state: "NULL", "other"
\*                     (another tool's), "pdb" (the tracer of the sub-interpreter)
\*   subhook           c_tracefunc of the sub-interpreter's thread state:
\*                     "NULL" or "pdb"
\*   aborted           the process is gone (Py_FatalError, or a crash)
NewProcess ==
    [signum |-> 0, address |-> 0, previous |-> "SIG_DFL", host_port |-> "None",
     disp |-> Dispositions, atexit |-> FALSE, naddr |-> 0,
     inflight |-> {}, pending |-> <<>>, current_pdbctx |-> "NULL", contexts |-> 0,
     subinterps |-> 0, hook |-> "NULL", subhook |-> "NULL", tstate |-> "main",
     aborted |-> FALSE]

\* sigaction(signum, &action, NULL)
sigaction(p, signum, handler) == [p EXCEPT !.disp[signum] = handler]

\* The signals whose delivery runs _pdbhandler().
Handlers(p) == {s \in DOMAIN p.disp : p.disp[s] = "_pdbhandler"}

check_signum(signum) ==
    LET s == IF signum = 0 THEN SIGUSR1 ELSE signum
    IN [ok |-> ~(s < 0 \/ s >= NSIG), signum |-> s]

atexit_register(p, ok) ==
    IF p.atexit THEN R(p, 0)
    ELSE R([p EXCEPT !.atexit = TRUE], IF ok THEN 0 ELSE -1)

\* _unregister() that leaves the signal's disposition as it is.
_unregister_norestore(p) ==
    IF p.signum = 0 THEN p
    ELSE [p EXCEPT !.signum = 0, !.address = 0, !.host_port = "None"]

_unregister(p) ==
    IF p.signum = 0 THEN p
    ELSE [sigaction(p, p.signum, p.previous)
             EXCEPT !.signum = 0, !.address = 0, !.host_port = "None"]

\* _register() that does not unregister the signal registered before.
_register_keep_old(p, host_port, signum, fail) ==
    LET c == check_signum(signum)
        p2 == IF p.signum = 0
              THEN [sigaction(p, c.signum, "_pdbhandler")
                       EXCEPT !.signum = c.signum, !.previous = p.disp[c.signum]]
              ELSE p
        p3 == [p2 EXCEPT !.address = p.naddr + 1, !.naddr = p.naddr + 1,
                         !.host_port = host_port]
    IN IF ~c.ok \/ fail = "alloc" THEN R(p, -1)
       ELSE IF p.signum = 0 /\ fail = "sigaction" THEN R(p, -1)
       ELSE atexit_register(p3, fail # "atexit")

\* _register(): fail names the step that fails ("none", "alloc": building the
\* address dictionary, "sigaction", "atexit").
_register(p, host_port, signum, fail) ==
    LET c == check_signum(signum)
        p1 == IF p.signum # 0 /\ p.signum # c.signum THEN _unregister(p) ELSE p
        p2 == IF p1.signum = 0
              THEN [sigaction(p1, c.signum, "_pdbhandler")
                       EXCEPT !.signum = c.signum, !.previous = p1.disp[c.signum]]
              ELSE p1
        p3 == [p2 EXCEPT !.address = p.naddr + 1, !.naddr = p.naddr + 1,
                         !.host_port = host_port]
    IN IF ~c.ok \/ fail = "alloc" THEN R(p, -1)
       ELSE IF p1.signum = 0 /\ fail = "sigaction" THEN R(p1, -1)
       ELSE atexit_register(p3, fail # "atexit")

\* registered(): (host, port) and the signal number.
_pdbhandler_registered(p) ==
    <<IF p.address # 0 THEN p.host_port ELSE "None", p.signum>>

\* Py_AddPendingCall(): the call is dropped when the queue is full or its
\* lock is busy.
Py_AddPendingCall(p, arg, lock_ok) ==
    IF lock_ok /\ Len(p.pending) < MaxPending
    THEN [p EXCEPT !.pending = Append(@, arg)]
    ELSE p

\* _pdbhandler() without the test of the signal number.
_pdbhandler_any(p, signum, lock_ok) == Py_AddPendingCall(p, p.address, lock_ok)

_pdbhandler(p, signum, lock_ok) ==
    IF p.signum # signum THEN p
    ELSE Py_AddPendingCall(p, p.address, lock_ok)

PyThreadState_Swap(p, tstate) == [p EXCEPT !.tstate = tstate]

\* Py_NewInterpreter(): the thread state of the new interpreter is current.
Py_NewInterpreter(p) == [p EXCEPT !.subinterps = @ + 1, !.tstate = "sub"]

\* Py_EndInterpreter(): the sub-interpreter's thread state is destroyed, and
\* no thread state is current afterwards.
Py_EndInterpreter(p) ==
    [p EXCEPT !.subinterps = @ - 1, !.subhook = "NULL", !.tstate = "NULL"]

\* PyEval_SetTrace(): the trace function of the current thread state.
PyEval_SetTrace(p, func) ==
    CASE p.tstate = "main" -> [p EXCEPT !.hook = func]
      [] p.tstate = "sub" -> [p EXCEPT !.subhook = func]
      [] OTHER -> p

\* pdb_clone.pdb.set_trace_remote(), run in the sub-interpreter: the debugger
\* it starts installs its trace function on the current thread state.
set_trace_remote(p) == PyEval_SetTrace(p, "pdb")

\* tp_alloc of a pdbtracerctxobject, stored in current_pdbctx (substate NULL).
pdbtracerctx_alloc(p) == [p EXCEPT !.contexts = @ + 1, !.current_pdbctx = "ctx"]

\* pdbtracerctx_dealloc() that leaves current_pdbctx as it is.
pdbtracerctx_dealloc_keep(p, substate) ==
    LET p1 == IF substate
              THEN PyThreadState_Swap(Py_EndInterpreter(PyThreadState_Swap(p, "sub")),
                                      p.tstate)
              ELSE p
    IN [p1 EXCEPT !.contexts = @ - 1]

\* pdbtracerctx_dealloc() that ends the sub-interpreter whatever self->substate.
pdbtracerctx_dealloc_always(p, substate) ==
    LET p1 == PyThreadState_Swap(Py_EndInterpreter(PyThreadState_Swap(p, "sub")),
                                 p.tstate)
    IN [p1 EXCEPT !.contexts = @ - 1, !.current_pdbctx = "NULL"]

\* pdbtracerctx_dealloc(): substate says whether self->substate is set.
pdbtracerctx_dealloc(p, substate) ==
    LET p1 == IF substate
              THEN PyThreadState_Swap(Py_EndInterpreter(PyThreadState_Swap(p, "sub")),
                                      p.tstate)
              ELSE p
    IN [p1 EXCEPT !.contexts = @ - 1, !.current_pdbctx = "NULL"]

\* The test of line 133 without current_pdbctx.
attach_refused_tracing(p, in) == in.tracing

\* The test of line 133 without mainstate->tracing.
attach_refused_attached(p, in) == p.current_pdbctx # "NULL"

\* bootstrappdb(), line 133
attach_refused(p, in) == in.tracing \/ p.current_pdbctx # "NULL"

\* The inputs of one bootstrappdb() run:
\*   args     what PyDict_Check(args) meets: "dict", "notdict", or "crash"
\*   tracing  mainstate->tracing
\*   tracemalloc  tracemalloc is tracing (is_tracing() would return True)
\*   fail     the step that fails, "none" when none does
BootInput(args, tracing, tracemalloc, fail) ==
    [args |-> args, tracing |-> tracing, tracemalloc |-> tracemalloc, fail |-> fail]

\* Failures before the sub-interpreter exists, and after.
EarlyFails == {"not_initialized", "no_gil", "is_tracing_error"}

LateFails == {"type_ready", "newinterp", "no_rsock", "no_tracefunc", "alloc", "setattr"}

\* bootstrappdb(), label err without the swap back to the main thread state.
bootstrap_err_noswap(p, mainstate) == Py_EndInterpreter(p)

\* bootstrappdb(), label err: the sub-interpreter is ended and the main
\* thread state is made current again.
bootstrap_err(p, mainstate) == PyThreadState_Swap(Py_EndInterpreter(p), mainstate)

\* bootstrappdb(), lines 136-204, without the PyEval_SetTrace(NULL, NULL) of
\* line 185: the sub-interpreter's thread state keeps its trace function.
bootstrap_session_copy(p, in) ==
    IF in.fail = "type_ready" THEN R(p, -1)
    ELSE IF in.fail = "newinterp"
    THEN R(PyThreadState_Swap(PyThreadState_Swap(p, "NULL"), p.tstate), -1)
    ELSE LET new == Py_NewInterpreter(PyThreadState_Swap(p, "NULL"))
             sub == IF in.fail \in {"no_rsock", "no_tracefunc"} THEN new
                    ELSE set_trace_remote(new)
         IN IF in.fail \in {"no_rsock", "no_tracefunc", "alloc"}
            THEN R(bootstrap_err(sub, p.tstate), -1)
            ELSE IF in.fail = "setattr"
            THEN R(pdbtracerctx_dealloc(bootstrap_err(pdbtracerctx_alloc(sub), p.tstate),
                                        FALSE), -1)
            ELSE R(PyEval_SetTrace(
                       PyThreadState_Swap(pdbtracerctx_alloc(sub),
                                          p.tstate),
                       "pdb"), 0)

\* bootstrappdb(), lines 136-204: the sub-interpreter, the session in it, the
\* context object, and the swap of the trace function.
bootstrap_session(p, in) ==
    IF in.fail = "type_ready" THEN R(p, -1)
    ELSE IF in.fail = "newinterp"
    THEN R(PyThreadState_Swap(PyThreadState_Swap(p, "NULL"), p.tstate), -1)
    ELSE LET new == Py_NewInterpreter(PyThreadState_Swap(p, "NULL"))
             sub == IF in.fail \in {"no_rsock", "no_tracefunc"} THEN new
                    ELSE set_trace_remote(new)
         IN IF in.fail \in {"no_rsock", "no_tracefunc", "alloc"}
            THEN R(bootstrap_err(sub, p.tstate), -1)
            ELSE IF in.fail = "setattr"
            THEN R(pdbtracerctx_dealloc(bootstrap_err(pdbtracerctx_alloc(sub), p.tstate),
                                        FALSE), -1)
            ELSE R(PyEval_SetTrace(
                       PyThreadState_Swap(PyEval_SetTrace(pdbtracerctx_alloc(sub), "NULL"),
                                          p.tstate),
                       "pdb"), 0)

\* bootstrappdb() without the test of line 133.
bootstrappdb_unguarded(p, in) ==
    IF in.args = "crash" THEN R([p EXCEPT !.aborted = TRUE], -1)
    ELSE IF in.args = "notdict" THEN R(p, -1)
    ELSE IF in.fail \in {"not_initialized", "no_gil"} THEN R(p, 0)
    ELSE IF in.fail = "is_tracing_error" THEN R(p, -1)
    ELSE IF in.tracemalloc THEN R([p EXCEPT !.aborted = TRUE], -1)
    ELSE bootstrap_session(p, in)

\* bootstrappdb() with the test of line 133 made before that of tracemalloc.
bootstrappdb_guard_first(p, in) ==
    IF in.args = "crash" THEN R([p EXCEPT !.aborted = TRUE], -1)
    ELSE IF in.args = "notdict" THEN R(p, -1)
    ELSE IF in.fail \in {"not_initialized", "no_gil"} THEN R(p, 0)
    ELSE IF attach_refused(p, in) THEN R(p, 0)
    ELSE IF in.fail = "is_tracing_error" THEN R(p, -1)
    ELSE IF in.tracemalloc THEN R([p EXCEPT !.aborted = TRUE], -1)
    ELSE bootstrap_session(p, in)

\* bootstrappdb(): the result is its return value.
bootstrappdb(p, in) ==
    IF in.args = "crash" THEN R([p EXCEPT !.aborted = TRUE], -1)
    ELSE IF in.args = "notdict" THEN R(p, -1)
    ELSE IF in.fail \in {"not_initialized", "no_gil"} THEN R(p, 0)
    ELSE IF in.fail = "is_tracing_error" THEN R(p, -1)
    ELSE IF in.tracemalloc THEN R([p EXCEPT !.aborted = TRUE], -1)
    ELSE IF attach_refused(p, in) THEN R(p, 0)
    ELSE bootstrap_session(p, in)

\* bootstrappdb_string() that returns its initial rc.
bootstrappdb_string_lost(p, parse_ok, in) ==
    IF ~parse_ok THEN R(p, -1) ELSE R(bootstrappdb(p, in).w, -1)

\* bootstrappdb_string(): the address string is turned into a dictionary.
bootstrappdb_string(p, parse_ok, in) ==
    IF ~parse_ok THEN R(p, -1) ELSE bootstrappdb(p, in)

\* A front end that leaves the hook where it is.
release_hook_none(p) == p

\* What the front end does with the main thread's hook when a session ends:
\* the references the engine holds into the context are released.
release_hook(p) == [p EXCEPT !.hook = IF @ = "pdb" THEN "NULL" ELSE @]

\* The transport is closed: the hook is released, and the last reference to
\* the context goes with the socket.
close_transport(p) == pdbtracerctx_dealloc(release_hook(p), TRUE)

\* ------------------------------------------------------ the attach actions
AObs(op, rc, note) == [op |-> op, rc |-> rc, note |-> note]

ACommit(p, h, o) ==
    /\ pdbhandler' = p
    /\ history' = h
    /\ alast' = o
    /\ UNCHANGED tvars

Register(host_port, signum, fail) ==
    /\ ~pdbhandler.aborted
    /\ pdbhandler.naddr < MaxRegistrations
    /\ LET r == _register(pdbhandler, host_port, signum, fail)
       IN ACommit(r.w, history,
                  AObs("register", r.res,
                       IF fail = "none" /\ pdbhandler.signum \notin {0, r.w.signum}
                       THEN "replaced" ELSE fail))

Unregister ==
    /\ ~pdbhandler.aborted
    /\ ACommit(_unregister(pdbhandler), history, AObs("unregister", 0, "none"))

\* A signal whose disposition is _pdbhandler is delivered.
SignalArrives(s) ==
    /\ ~pdbhandler.aborted
    /\ s \in Handlers(pdbhandler) \ pdbhandler.inflight
    /\ ACommit([pdbhandler EXCEPT !.inflight = @ \cup {s}], history,
               AObs("signal", 0, "none"))

\* The handler of a delivered signal runs.
Handler(s, lock_ok) ==
    /\ ~pdbhandler.aborted
    /\ s \in pdbhandler.inflight
    /\ LET p == _pdbhandler(pdbhandler, s, lock_ok)
       IN ACommit([p EXCEPT !.inflight = @ \ {s}], history,
                  AObs("handler", 0,
                       IF p.pending # pdbhandler.pending THEN "enqueued"
                       ELSE IF pdbhandler.signum # s THEN "ignored" ELSE "dropped"))

\* What PyDict_Check() can meet in a pending call's argument: the dictionary
\* when it is alive; NULL is dereferenced; a freed dictionary is anything.
ArgsOutcomes(p, arg) ==
    IF arg = 0 THEN {"crash"}
    ELSE IF arg = p.address THEN {"dict"}
    ELSE {"crash", "notdict", "dict"}

Attached(p, q) == p.current_pdbctx = "NULL" /\ q.current_pdbctx = "ctx"

BootNote(p, r, in) ==
    IF r.w.aborted THEN "abort"
    ELSE IF Attached(p, r.w) THEN "attached"
    ELSE IF r.res = 0 /\ in.fail \notin EarlyFails /\ p.current_pdbctx # "NULL"
    THEN "refused"
    ELSE IF r.res = -1 /\ in.args = "dict" /\ in.fail \in LateFails
    THEN in.fail
    ELSE "none"

History(p, q) ==
    IF q.contexts > p.contexts
    THEN [pre_hook |-> p.hook, sessions |-> history.sessions + 1]
    ELSE history

\* The main thread reaches a safe point: the oldest pending call runs.
RunPending(in) ==
    /\ ~pdbhandler.aborted
    /\ pdbhandler.pending # <<>>
    /\ in.args \in ArgsOutcomes(pdbhandler, Head(pdbhandler.pending))
    /\ LET p == [pdbhandler EXCEPT !.pending = Tail(@)]
           r == bootstrappdb(p, in)
       IN /\ r.w.contexts > p.contexts => history.sessions < MaxSessions
          /\ ACommit(r.w, History(p, r.w), AObs("pending", r.res, BootNote(p, r, in)))

\* bootstrappdb_string() is called (from a debugger attached to the process).
AttachString(parse_ok, in) ==
    /\ ~pdbhandler.aborted
    /\ in.args = "dict"
    /\ LET r == bootstrappdb_string(pdbhandler, parse_ok, in)
       IN /\ r.w.contexts > pdbhandler.contexts => history.sessions < MaxSessions
          /\ ACommit(r.w, History(pdbhandler, r.w),
                     AObs("attach_string", r.res,
                          IF parse_ok THEN BootNote(pdbhandler, r, in) ELSE "none"))

\* The session's transport is closed.
Teardown ==
    /\ ~pdbhandler.aborted
    /\ pdbhandler.contexts > 0
    /\ ACommit(close_transport(pdbhandler), history, AObs("teardown", 0, "none"))

\* Another tool installs or removes its own hook on the main thread.
OtherTool ==
    /\ ~pdbhandler.aborted
    /\ pdbhandler.current_pdbctx = "NULL"
    /\ pdbhandler.hook # "pdb"
    /\ ACommit([pdbhandler EXCEPT !.hook = IF @ = "NULL" THEN "other" ELSE "NULL"],
               history, AObs("other_tool", 0, "none"))

\* The inputs of bootstrappdb(): when args is not a dictionary nothing else
\* is read; inside a trace callback (tracing) no later step is reached.
BootInputs ==
    {BootInput(a, FALSE, FALSE, "none") : a \in {"notdict", "crash"}}
    \cup {BootInput("dict", FALSE, FALSE, f) : f \in {"none"} \cup EarlyFails \cup LateFails}
    \cup {BootInput("dict", TRUE, FALSE, "none")}
    \cup {BootInput("dict", FALSE, TRUE, f) : f \in {"none"} \cup EarlyFails}

\* The inputs of register(): <<host and port, signal number, failing step>>.
\* A signal number out of range and a failed allocation end the call before
\* anything else is read; 0 stands for SIGUSR1.
RegisterInputs ==
    {<<"None", -1, "none">>, <<"None", 0, "none">>, <<"None", SIGUSR1, "alloc">>}
    \cup {<<h, s, f>> : h \in HostPorts, s \in Signums \ {-1, 0},
                       f \in {"none", "sigaction", "atexit"}}

AttachInit ==
    /\ pdbhandler = NewProcess
    /\ history = [pre_hook |-> "NULL", sessions |-> 0]
    /\ alast = AObs("init", 0, "none")

AttachNext ==
    \/ \E in \in RegisterInputs : Register(in[1], in[2], in[3])
    \/ Unregister
    \/ \E s \in Handlers(pdbhandler) : SignalArrives(s)
    \/ \E s \in pdbhandler.inflight : \E lock_ok \in BOOLEAN : Handler(s, lock_ok)
    \/ \E in \in BootInputs : RunPending(in)
    \/ \E in \in BootInputs : AttachString(TRUE, in)
    \/ AttachString(FALSE, BootInput("dict", FALSE, FALSE, "none"))
    \/ Teardown
    \/ OtherTool

\* ------------------------------------------------------ the specifications
Init == TracerInit /\ AttachInit

\* The dispatcher driven by the host's events and by the front end.
Spec == Init /\ [][Next]_vars

\* The attach machinery (the dispatcher is left as constructed).
AttachSpecInit ==
    /\ bdb = NewTracer([skip_modules |-> {}, skip_calls |-> {}])
    /\ stack = <<>>
    /\ c_tracefunc = "NULL"
    /\ c_profilefunc = "NULL"
    /\ last = FrontEndObs
    /\ AttachInit

AttachSpec == AttachSpecInit /\ [][AttachNext]_vars

\* The breakpoint index under a "continue": the session has run with no
\* breakpoint set and its botframe has returned with the full hook left
\* installed; the user has answered continue (stop_lineno -1), so that the
\* stop policy is false everywhere and only the breakpoints, which the
\* front end sets and clears in U and in W, make the dispatcher stop.
IndexBreakLines(u) == CASE u = "U" -> {7} [] u = "W" -> {6} [] OTHER -> {}

IndexTracer ==
    [NewTracer([skip_modules |-> {}, skip_calls |-> {}])
        EXCEPT !.ignore_first_call_event = FALSE,
               !.botframe = GoneFrame,
               !.stop_lineno = -1]

IndexInit ==
    /\ bdb = IndexTracer
    /\ stack = <<>>
    /\ c_tracefunc = "tracer"
    /\ c_profilefunc = "NULL"
    /\ last = FrontEndObs
    /\ AttachInit

IndexNext ==
    \/ \E u \in Callees(Len(stack) + 1) : CallEvent(u, DefaultInput)
    \/ /\ stack # <<>>
       /\ \E ln \in CodeLines(stack[Len(stack)].f_code) : LineEvent(ln, DefaultInput)
    \/ /\ stack # <<>>
       /\ \E ln \in CodeLines(stack[Len(stack)].f_code) : ReturnEvent(ln, DefaultInput)
    \/ \E u \in Units : \E ln \in IndexBreakLines(u) : SetBreak(u, ln)
    \/ \E u \in Units : \E ln \in IndexBreakLines(u) : ClearBreak(u, ln)

IndexSpec == IndexInit /\ [][IndexNext]_vars

\* =====================================================================
\* Properties of the dispatcher (checked under Spec)
\* =====================================================================
\* The top frame, and the outcome of delivering it an event in this state.
Top == Len(stack)

\* The inputs of an event in which is_skipped_module() does not raise.
SkipOkInputs(w, f, what, ln) == {in \in Inputs(w, f, what, ln) : in.skip_ok}

\* The names of the callbacks invoked, in order.
Names(calls) == [i \in 1..Len(calls) |-> calls[i][1]]

Count(calls, name) == Cardinality({i \in 1..Len(calls) : calls[i][1] = name})

\* The code unit has a line-set in the index (it was assigned a breakpoint
\* at some time: line-sets are never removed).
HasLineSet(w, u) ==
    /\ co_filename(u) \in DOMAIN w.bdb.breakpoints
    /\ co_firstlineno(u) \in DOMAIN w.bdb.breakpoints[co_filename(u)]

\* The lines of the claim's examples.
C1Lines == {10, 15, 20, 25}

\* C1: for every session state with a stop-line threshold >= 0 and every frame
\* of the stack, whatever its current line, stop_here(frame) is true exactly
\* when the frame's module is not skipped, and the frame is the stopframe or
\* no stopframe is designated, and the threshold is 0 or the line is at or
\* beyond the threshold (with threshold 20: lines 20 and 25 stop, 15 does not;
\* with threshold 0, line 10 stops).
C1_StopHereTable ==
    \A f \in 1..Len(stack) :
        \A ln \in C1Lines \cup FrameLines(stack[f].f_code) :
            bdb.stop_lineno >= 0 =>
                /\ stop_here(World, f, ln, DefaultInput) \in {0, 1}
                /\ (stop_here(World, f, ln, DefaultInput) = 1)
                   <=> /\ co_filename(stack[f].f_code) \notin bdb.skip_modules
                       /\ (f = bdb.stopframe \/ bdb.stopframe = Py_None)
                       /\ (bdb.stop_lineno = 0 \/ ln >= bdb.stop_lineno)

\* A line event has stopped (user_line) in the stopframe under threshold 20:
\* there line 25 and line 20 stop and line 15 does not.
C1_Witness ==
    /\ stack # <<>>
    /\ last.what = "line"
    /\ Names(last.calls) = <<"user_line">>
    /\ bdb.stopframe = Top
    /\ bdb.stop_lineno = 20
    /\ stop_here(World, Top, 25, DefaultInput) = 1
    /\ stop_here(World, Top, 20, DefaultInput) = 1
    /\ stop_here(World, Top, 15, DefaultInput) = 0

\* C2: when the one-entry cache holds a code unit and a breakpoint is in the
\* unit's line-set (also one inserted after the cache was filled, and after
\* the line-set had been emptied), the cached lookup at the breakpoint's line
\* returns the module's breakpoint set, never a miss; and the line event that
\* reaches the lookup (line-level hook on the frame, stop policy false)
\* invokes bkpt_user_line.
C2_NoStaleMiss ==
    \A f \in 1..Len(stack) :
        \A ln \in BreakLines(stack[f].f_code) :
            (bdb.f_code = stack[f].f_code /\ HasBreak(World, stack[f].f_code, ln)) =>
                /\ bkpt_at_line(World, f, ln).res = co_filename(stack[f].f_code)
                /\ ( /\ f = Top
                     /\ c_tracefunc = "tracer"
                     /\ stack[f].f_trace = "self"
                     /\ stop_here(World, f, ln, DefaultInput) = 0 )
                   => \A in \in SkipOkInputs(World, f, "line", ln) :
                         Names(Deliver(World, f, "line", ln, in).w.calls)
                            = <<"bkpt_user_line">>

\* A breakpoint has just been inserted into the line-set of the unit the
\* cache holds (the line-set was empty: its only breakpoint had been cleared),
\* and the running frame of that unit is traced line by line.
C2_Witness ==
    /\ stack # <<>>
    /\ last.what = "set_break"
    /\ bdb.f_code = stack[Top].f_code
    /\ HasBreak(World, stack[Top].f_code, 7)
    /\ c_tracefunc = "tracer"
    /\ stack[Top].f_trace = "self"
    /\ stop_here(World, Top, 7, DefaultInput) = 0

\* What the call event entering the next frame gives, when a hook is
\* installed, its unit has no line-set and the stop policy is false for it.
DemotionAtCall(flag_clear) ==
    (Len(stack) < MaxDepth /\ BdbTracer_gettrace(World) = "self") =>
        \A u \in Callees(Len(stack) + 1) :
            LET f == Len(stack) + 1
                w0 == NewFrame(World, u)
            IN ( /\ ~HasLineSet(w0, u)
                 /\ stop_here(w0, f, co_firstlineno(u), DefaultInput) = 0
                 /\ flag_clear => ~bdb.ignore_first_call_event )
               => \A in \in SkipOkInputs(w0, f, "call", co_firstlineno(u)) :
                     LET d == Deliver(w0, f, "call", co_firstlineno(u), in)
                     IN /\ d.directive = "Uninstall"
                        /\ d.w.calls = <<>>
                        /\ d.w.stack[f].f_trace = "NULL"
                        /\ d.w.ct = "NULL"
                        /\ d.w.cp = "profiler"

\* A frame without a line-level hook gets no callback from a line or an
\* exception event.
NoCallbackWhileDemoted ==
    (stack # <<>> /\ stack[Top].f_trace = "NULL") =>
        \A what \in {"line", "exception"} :
            \A ln \in CodeLines(stack[Top].f_code) :
                \A in \in Inputs(World, Top, what, ln) :
                    LET d == Deliver(World, Top, what, ln, in)
                    IN d.w.calls = <<>> /\ d.w.bdb = bdb /\ d.w.stack = stack

\* C3 (as stated): every frame of a unit never assigned a breakpoint, entered
\* while the stop policy is false for it, is demoted by its call event:
\* Uninstall, no line-level hook, the thread-wide hook switched to coarse.
C3_DemotionAlways == DemotionAtCall(FALSE)

\* C3 (amended): the same, when the ignore-first-call flag is clear; and a
\* frame gets no callback from line and exception events for as long as it
\* has no line-level hook.
C3_Demotion == DemotionAtCall(TRUE) /\ NoCallbackWhileDemoted

\* A call event has demoted the frame it entered.
C3_Witness ==
    /\ stack # <<>>
    /\ last.what = "call"
    /\ last.directive = "Uninstall"
    /\ last.calls = <<>>
    /\ ~HasLineSet(World, stack[Top].f_code)
    /\ stack[Top].f_trace = "NULL"
    /\ c_tracefunc = "NULL"
    /\ c_profilefunc = "profiler"

\* C4: with a breakpoint at line 7 of U and the stop policy false, a line
\* event at a breakpoint line in a frame of U that has its line-level hook
\* invokes bkpt_user_line exactly once, with the breakpoint set of U's
\* module, and no other callback; the dispatcher changes nothing in the
\* breakpoint index.
C4_BreakpointHit ==
    ( /\ stack # <<>>
      /\ stack[Top].f_code = "U"
      /\ HasBreak(World, "U", 7)
      /\ c_tracefunc = "tracer"
      /\ stack[Top].f_trace = "self" )
    => \A ln \in {l \in CodeLines("U") : HasBreak(World, "U", l)} :
          stop_here(World, Top, ln, DefaultInput) = 0 =>
             \A in \in SkipOkInputs(World, Top, "line", ln) :
                LET d == Deliver(World, Top, "line", ln, in)
                IN /\ d.w.calls = << <<"bkpt_user_line", co_filename("U")>> >>
                   /\ d.w.bdb.breakpoints = bdb.breakpoints
                   /\ d.w.bdb.linenumbers = bdb.linenumbers

\* A line event in a frame of U has invoked bkpt_user_line, and only it.
C4_Witness ==
    /\ stack # <<>>
    /\ stack[Top].f_code = "U"
    /\ HasBreak(World, "U", 7)
    /\ last.what = "line"
    /\ last.calls = << <<"bkpt_user_line", "a.py">> >>

\* C5 (as stated): every return event in the botframe invokes stop_tracing
\* exactly once and yields Uninstall, whatever the stepping state, the answer
\* of user_return and the instrumentation level.
C5_BotframeReturnAlways ==
    (stack # <<>> /\ bdb.botframe = Top /\ BdbTracer_gettrace(World) = "self") =>
        \A ln \in CodeLines(stack[Top].f_code) :
            \A in \in Inputs(World, Top, "return", ln) :
                LET d == Deliver(World, Top, "return", ln, in)
                IN /\ Count(d.w.calls, "stop_tracing") = 1
                   /\ d.directive = "Uninstall"

\* C5 (amended): a return event in the botframe, delivered by the full hook to
\* a frame that has its line-level hook, invokes stop_tracing exactly once,
\* as the last callback, and yields Uninstall (Fatal when stop_tracing
\* raises), unless user_return was invoked and did not answer with the
\* dispatcher: then stop_tracing is not invoked, and the directive is
\* Uninstall when the answer is None, Fatal when it is an error.  A frame
\* without line-level hook gets no callback, and the coarse hook invokes no
\* callback either: it removes itself.
C5_BotframeReturn ==
    (stack # <<>> /\ bdb.botframe = Top) =>
        \A ln \in CodeLines(stack[Top].f_code) :
            \A in \in SkipOkInputs(World, Top, "return", ln) :
                LET d == Deliver(World, Top, "return", ln, in)
                    n == Len(d.w.calls)
                    asked == n > 0 /\ d.w.calls[1][1] = "user_return"
                    failed == in.cmd.raise \/ in.cmd.traceobj = "NULL"
                IN /\ (c_tracefunc = "tracer" /\ stack[Top].f_trace = "self") =>
                        IF asked /\ (failed \/ in.cmd.traceobj = "None")
                        THEN /\ Count(d.w.calls, "stop_tracing") = 0
                             /\ d.directive = IF failed THEN "Fatal" ELSE "Uninstall"
                        ELSE /\ Count(d.w.calls, "stop_tracing") = 1
                             /\ d.w.calls[n][1] = "stop_tracing"
                             /\ d.directive = IF in.st = "raise" THEN "Fatal"
                                              ELSE "Uninstall"
                   /\ (c_tracefunc = "tracer" /\ stack[Top].f_trace = "NULL") =>
                        d.w.calls = <<>> /\ d.directive = "none"
                   /\ (c_tracefunc = "NULL" /\ c_profilefunc = "profiler") =>
                        d.w.calls = <<>> /\ d.w.cp = "NULL" /\ d.w.ct = "NULL"

\* The botframe has returned: user_return was invoked, then stop_tracing, once.
C5_Witness ==
    /\ last.what = "return"
    /\ Names(last.calls) = <<"user_return", "stop_tracing">>
    /\ last.directive = "Uninstall"
    /\ bdb.botframe = GoneFrame

\* =====================================================================
\* Properties of the attach machinery (checked under AttachSpec)
\* =====================================================================
\* The attach requests that reach the test of line 133: the argument is a
\* dictionary and no earlier precondition fails.
GuardInputs ==
    {in \in BootInputs : in.args = "dict" /\ in.fail \notin EarlyFails /\ ~in.tracemalloc}

\* C6: while a session is attached, an attach request that reaches the safe
\* point's test is rejected: it returns 0 and changes nothing (no second
\* context, the hook as it was); when no session is attached (none yet, or
\* the last one torn down), a request in which nothing fails attaches: one
\* context, one sub-interpreter, the hook installed.  This holds after any
\* number of sessions.
C6_OverlappingAttach ==
    ~pdbhandler.aborted =>
        \A in \in GuardInputs :
            LET r == bootstrappdb(pdbhandler, in)
            IN /\ pdbhandler.contexts > 0 => (r.res = 0 /\ r.w = pdbhandler)
               /\ (pdbhandler.contexts = 0 /\ ~in.tracing /\ in.fail = "none") =>
                     /\ r.res = 0
                     /\ r.w.current_pdbctx = "ctx"
                     /\ r.w.contexts = 1
                     /\ r.w.subinterps = 1
                     /\ r.w.hook = "pdb"

\* In the second session of the run (the first was torn down), a pending
\* attach request has been rejected.
C6_Witness ==
    /\ history.sessions = 2
    /\ pdbhandler.contexts = 1
    /\ alast.op = "pending"
    /\ alast.note = "refused"

\* C7: in every reachable state at most one AttachContext is alive, and at
\* most one sub-interpreter.
C7_AtMostOneContext == pdbhandler.contexts <= 1 /\ pdbhandler.subinterps <= 1

\* An explicit attach call has met an attached session, with a signal's
\* request still pending.
C7_Witness ==
    /\ pdbhandler.contexts = 1
    /\ alast.op = "attach_string"
    /\ alast.note = "refused"
    /\ pdbhandler.pending # <<>>

\* C8: the handler of a delivered signal changes nothing but the pending
\* queue, to which it appends one call of bootstrappdb with the registered
\* address; it changes nothing at all when the signal is not the registered
\* one, when the queue is full or when its lock is busy.
C8_HandlerOnlyEnqueues ==
    \A s \in pdbhandler.inflight :
        \A lock_ok \in BOOLEAN :
            LET q == _pdbhandler(pdbhandler, s, lock_ok)
                room == lock_ok /\ Len(pdbhandler.pending) < MaxPending
            IN /\ [q EXCEPT !.pending = pdbhandler.pending] = pdbhandler
               /\ (pdbhandler.signum = s /\ room) =>
                     q.pending = Append(pdbhandler.pending, pdbhandler.address)
               /\ (pdbhandler.signum # s \/ ~room) => q = pdbhandler

\* The handler has dropped a request, and no session is attached.
C8_Witness ==
    /\ alast.op = "handler"
    /\ alast.note = "dropped"
    /\ pdbhandler.contexts = 0
    /\ ~pdbhandler.aborted

C10_HookRestored == alast.op = "teardown" => pdbhandler.hook = history.pre_hook

\* The attach requests in which a precondition of the attach fails in process
\* p: the runtime is not initialized, the thread is not in the main
\* interpreter, or (tracemalloc not tracing) a session is attached or the
\* thread is inside a trace callback.
PreconditionInputs(p) ==
    {in \in BootInputs :
        /\ in.args = "dict"
        /\ \/ in.fail \in {"not_initialized", "no_gil"}
           \/ /\ in.fail \notin EarlyFails
              /\ ~in.tracemalloc
              /\ (in.tracing \/ p.current_pdbctx # "NULL")}

\* The requests that attach when no session is attached.
GoodInputs ==
    {in \in BootInputs : in.args = "dict" /\ in.fail = "none" /\ ~in.tracing
                                        /\ ~in.tracemalloc}

\* C11: when the bootstrap runs at a safe point and a precondition of the
\* attach fails, nothing is left behind: no context and no sub-interpreter
\* is created, and the hook of the main thread, current_pdbctx and the current
\* thread state are what they were.
C11_NoPartialState ==
    ~pdbhandler.aborted =>
        \A in \in PreconditionInputs(pdbhandler) :
            LET r == bootstrappdb(pdbhandler, in)
            IN /\ r.w.contexts = pdbhandler.contexts
               /\ r.w.subinterps = pdbhandler.subinterps
               /\ r.w.hook = pdbhandler.hook
               /\ r.w.current_pdbctx = pdbhandler.current_pdbctx
               /\ r.w.tstate = pdbhandler.tstate
               /\ r.w = pdbhandler

\* In the first session of the run, a pending attach request has met the
\* attached session and left it as it was.
C11_Witness ==
    /\ alast.op = "pending"
    /\ alast.note = "refused"
    /\ history.sessions = 1
    /\ pdbhandler.contexts = 1
    /\ pdbhandler.subinterps = 1
    /\ pdbhandler.hook = "pdb"
    /\ pdbhandler.tstate = "main"

\* C12 (as stated): an attach request that fails on a precondition returns
\* to its caller a value that differs from the value of a successful attach (0).
C12_FailureReported ==
    ~pdbhandler.aborted =>
        \A in \in PreconditionInputs(pdbhandler) :
            bootstrappdb_string(pdbhandler, TRUE, in).res # 0

\* C12 (amended): an attach request that fails on a precondition returns 0
\* and changes nothing; a successful attach returns 0 as well (and creates the
\* context), so the return value does not tell them apart.
C12_SilentRefusal ==
    ~pdbhandler.aborted =>
        /\ \A in \in PreconditionInputs(pdbhandler) :
              LET r == bootstrappdb_string(pdbhandler, TRUE, in)
              IN r.res = 0 /\ r.w = pdbhandler
        /\ pdbhandler.contexts = 0 =>
              \A in \in GoodInputs :
                 LET r == bootstrappdb_string(pdbhandler, TRUE, in)
                 IN r.res = 0 /\ r.w.contexts = 1

\* An explicit attach call has met an attached session and returned 0; no
\* request is pending.
C12_Witness ==
    /\ alast.op = "attach_string"
    /\ alast.note = "refused"
    /\ alast.rc = 0
    /\ pdbhandler.contexts = 1
    /\ pdbhandler.pending = <<>>

\* The failures of the construction the claim names.
ConstructionFails == {"newinterp", "no_rsock", "no_tracefunc", "alloc", "setattr"}

\* C13: when no precondition fails and the construction of the sub-interpreter
\* or of the session in it fails (creation, import or start of the debugger,
\* no trace function set, allocation of the context, its attachment to the
\* socket), the bootstrap returns -1 and the main thread's hook and the
\* current thread state are what they were; nothing else has changed either.
C13_ConstructionFailure ==
    (~pdbhandler.aborted /\ pdbhandler.current_pdbctx = "NULL") =>
        \A in \in {i \in GuardInputs : ~i.tracing /\ i.fail \in ConstructionFails} :
            LET r == bootstrappdb(pdbhandler, in)
            IN /\ r.res = -1
               /\ r.w.hook = pdbhandler.hook
               /\ r.w.tstate = pdbhandler.tstate
               /\ r.w = pdbhandler

\* The attachment of the context to the socket has failed while another
\* tool's hook was installed: the hook is still there.
C13_Witness ==
    /\ alast.op = "pending"
    /\ alast.rc = -1
    /\ alast.note = "setattr"
    /\ pdbhandler.hook = "other"
    /\ pdbhandler.tstate = "main"

\* C14: every sub-interpreter the bootstrap creates is ended exactly once:
\* whenever an operation has completed, as many sub-interpreters are alive as
\* contexts (none or one), and current_pdbctx is NULL when no context is
\* alive; a construction that fails ends its sub-interpreter before the
\* bootstrap returns, and the teardown ends the session's.
C14_EndedExactlyOnce ==
    /\ pdbhandler.subinterps = pdbhandler.contexts
    /\ pdbhandler.contexts \in {0, 1}
    /\ pdbhandler.contexts = 0 => pdbhandler.current_pdbctx = "NULL"
    /\ (~pdbhandler.aborted /\ pdbhandler.contexts = 0) =>
          \A in \in {i \in GuardInputs : ~i.tracing /\ i.fail \in LateFails} :
             LET r == bootstrappdb(pdbhandler, in)
             IN r.w.subinterps = 0 /\ r.w.contexts = 0 /\ r.w.current_pdbctx = "NULL"
    /\ pdbhandler.contexts = 1 =>
          /\ close_transport(pdbhandler).subinterps = 0
          /\ close_transport(pdbhandler).contexts = 0
          /\ close_transport(pdbhandler).current_pdbctx = "NULL"

\* After a session that was torn down, an attach attempt has failed with the
\* context allocated: its sub-interpreter and its context are gone.
C14_Witness ==
    /\ alast.note = "setattr"
    /\ history.sessions = 1
    /\ pdbhandler.contexts = 0
    /\ pdbhandler.subinterps = 0
    /\ pdbhandler.current_pdbctx = "NULL"

\* The attach requests that run while tracemalloc is tracing.
TracemallocInputs == {in \in BootInputs : in.args = "dict" /\ in.tracemalloc}

\* C19 (as stated): every bootstrap that runs while tracemalloc is tracing
\* ends in a fatal abort, with no context created and no hook changed.
C19_AlwaysAborts ==
    ~pdbhandler.aborted =>
        \A in \in TracemallocInputs :
            LET r == bootstrappdb(pdbhandler, in)
            IN /\ r.w.aborted
               /\ r.w.contexts = pdbhandler.contexts
               /\ r.w.hook = pdbhandler.hook

\* C19 (amended): a bootstrap that runs while tracemalloc is tracing ends in a
\* fatal abort when the runtime is initialized, the thread is in the main
\* interpreter and is_tracing() answers, also when a session is attached;
\* otherwise it returns (0, or -1 when is_tracing() raises) without abort.  In
\* every case no context is created and no hook is changed, and after the
\* abort the process does nothing more.
C19_TracemallocAborts ==
    /\ ~pdbhandler.aborted =>
          \A in \in TracemallocInputs :
             LET r == bootstrappdb(pdbhandler, in)
             IN /\ r.w.contexts = pdbhandler.contexts
                /\ r.w.subinterps = pdbhandler.subinterps
                /\ r.w.hook = pdbhandler.hook
                /\ IF in.fail \in {"not_initialized", "no_gil"}
                   THEN r.res = 0 /\ r.w = pdbhandler
                   ELSE IF in.fail = "is_tracing_error"
                   THEN r.res = -1 /\ r.w = pdbhandler
                   ELSE r.w = [pdbhandler EXCEPT !.aborted = TRUE]
    /\ alast.note = "abort" => pdbhandler.aborted
    /\ pdbhandler.aborted => ~ENABLED AttachNext

\* A request has run while tracemalloc was tracing and a session was attached:
\* the process has aborted.
C19_Witness ==
    /\ alast.note = "abort"
    /\ pdbhandler.aborted
    /\ pdbhandler.contexts = 1
    /\ pdbhandler.hook = "pdb"

\* =====================================================================
\* Properties of the registration (checked under AttachSpec)
\* =====================================================================
\* The register(); unregister() rounds of the round trip.
MaxRounds == 3

\* The signal numbers register() accepts.
ValidSignums == {s \in Signums : check_signum(s).ok}

\* The registration: the signal number, the address (host and port) and the
\* saved previous disposition.
RegState(p) ==
    [signum |-> p.signum, host_port |-> _pdbhandler_registered(p)[1],
     previous |-> p.previous]

\* n rounds of register(); unregister() from p, p0 being the process before
\* the first: each unregister() restores the dispositions of p0, and each
\* register() succeeds and yields the registration the first one yields.
RECURSIVE RoundTrip(_, _, _, _, _)
RoundTrip(p0, p, host_port, signum, n) ==
    IF n = 0 THEN TRUE
    ELSE LET r == _register(p, host_port, signum, "none")
             u == _unregister(r.w)
         IN /\ r.res = 0
            /\ r.w.disp[check_signum(signum).signum] = "_pdbhandler"
            /\ RegState(r.w) = RegState(_register(p0, host_port, signum, "none").w)
            /\ u.disp = p0.disp
            /\ u.signum = 0
            /\ RoundTrip(p0, u, host_port, signum, n - 1)

\* C16: from a process with no registration, MaxRounds rounds of register();
\* unregister() with the same parameters restore, after each unregister(),
\* the dispositions in place before the first register(), and each
\* register() yields the same registration (signal number, address, saved
\* disposition); a register() with the signal number already registered
\* changes neither the saved disposition nor any disposition.
C16_RoundTrip ==
    ~pdbhandler.aborted =>
        /\ pdbhandler.signum = 0 =>
              \A host_port \in HostPorts : \A signum \in ValidSignums :
                 RoundTrip(pdbhandler, pdbhandler, host_port, signum, MaxRounds)
        /\ pdbhandler.signum # 0 =>
              \A host_port \in HostPorts :
                 LET r == _register(pdbhandler, host_port, pdbhandler.signum, "none")
                 IN /\ r.w.previous = pdbhandler.previous
                    /\ r.w.disp = pdbhandler.disp
                    /\ r.w.signum = pdbhandler.signum

\* After two registrations, the last one on signal 12, unregister() has put
\* the program's handler back on signal 12.
C16_Witness ==
    /\ alast.op = "unregister"
    /\ pdbhandler.naddr = 2
    /\ pdbhandler.signum = 0
    /\ pdbhandler.previous = "app"
    /\ pdbhandler.disp = Dispositions

\* C17: at most one signal has _pdbhandler as its disposition, the registered
\* one; register() with another signal number gives the old signal its saved
\* disposition back (also when the installation on the new signal fails) and
\* installs the handler on the new signal: afterwards the handler enqueues a
\* request for the new signal only, and registered() reports the new host,
\* port and signal number.
C17_OneRegistration ==
    /\ Handlers(pdbhandler) \subseteq {pdbhandler.signum}
    /\ pdbhandler.signum # 0 => Handlers(pdbhandler) = {pdbhandler.signum}
    /\ (~pdbhandler.aborted /\ pdbhandler.signum # 0) =>
          \A host_port \in HostPorts :
             \A signum \in (DOMAIN pdbhandler.disp) \ {pdbhandler.signum} :
                LET q == _register(pdbhandler, host_port, signum, "none").w
                    e == _register(pdbhandler, host_port, signum, "sigaction").w
                IN /\ q.disp[pdbhandler.signum] = pdbhandler.previous
                   /\ q.disp[signum] = "_pdbhandler"
                   /\ Handlers(q) = {signum}
                   /\ _pdbhandler_registered(q) = <<host_port, signum>>
                   /\ _pdbhandler(q, pdbhandler.signum, TRUE) = q
                   /\ Len(q.pending) < MaxPending =>
                         _pdbhandler(q, signum, TRUE).pending
                            = Append(q.pending, q.address)
                   /\ e.disp[pdbhandler.signum] = pdbhandler.previous
                   /\ Handlers(e) = {}
                   /\ e.signum = 0

\* register() has moved the registration from SIGUSR1 to signal 12 while a
\* SIGUSR1 was delivered and its handler has not run yet.
C17_Witness ==
    /\ alast.op = "register"
    /\ alast.note = "replaced"
    /\ alast.rc = 0
    /\ pdbhandler.signum = 12
    /\ pdbhandler.disp[SIGUSR1] = "SIG_DFL"
    /\ pdbhandler.disp[12] = "_pdbhandler"
    /\ pdbhandler.inflight = {SIGUSR1}
    /\ _pdbhandler_registered(pdbhandler) = <<"remote", 12>>

\* =====================================================================
\* More properties of the dispatcher (checked under Spec)
\* =====================================================================
\* The events the host can deliver in this state: the call event of the frame
\* entered next, and the line, exception and return events of the top frame.
\* Each is <<world, frame, event, line>>.
Events ==
    (IF Len(stack) < MaxDepth
     THEN {<<NewFrame(World, u), Top + 1, "call", co_firstlineno(u)>> :
              u \in Callees(Top + 1)}
     ELSE {})
    \cup (IF stack # <<>>
          THEN {<<World, Top, what, ln>> : what \in {"line", "exception", "return"},
                                           ln \in CodeLines(stack[Top].f_code)}
          ELSE {})

\* The event reaches stop_here(), which calls is_skipped_module() when there
\* are skip rules.
StopHereReached(w, f, what) ==
    /\ w.bdb.skip_modules # {}
    /\ \/ w.ct = "tracer" /\ (what = "call" \/ w.stack[f].f_trace # "NULL")
       \/ w.ct # "tracer" /\ w.cp = "profiler" /\ what = "call"
    /\ what = "call" =>
          /\ ~w.bdb.ignore_first_call_event
          /\ w.stack[f].f_code \notin w.bdb.skip_calls

\* A callback of the event has raised: a user_xxx callback or the
\* get_traceobj() that follows it, stop_tracing(), or is_skipped_module().
CallbackRaised(w, f, what, in, d) ==
    LET n == Len(d.w.calls)
    IN \/ /\ n > 0
          /\ d.w.calls[1][1] # "stop_tracing"
          /\ (in.cmd.raise \/ in.cmd.traceobj = "NULL")
       \/ /\ n > 0
          /\ d.w.calls[n][1] = "stop_tracing"
          /\ in.st = "raise"
       \/ ~in.skip_ok /\ StopHereReached(w, f, what)

\* C15: when a callback of an event raises, in the full or in the coarse
\* level, no callback is invoked after it, the directive is Fatal and
\* neither hook is left installed on the thread.
C15_CallbackErrorDisables ==
    \A e \in Events :
        \A in \in Inputs(e[1], e[2], e[3], e[4]) :
            LET d == Deliver(e[1], e[2], e[3], e[4], in)
                n == Len(d.w.calls)
            IN CallbackRaised(e[1], e[2], e[3], in, d) =>
                  /\ d.directive = "Fatal" \/ d.second = "Fatal"
                  /\ d.w.ct = "NULL"
                  /\ d.w.cp = "NULL"
                  /\ BdbTracer_gettrace(d.w) = "None"
                  /\ (n > 0 /\ in.st # "raise") => n = 1
                  /\ ~in.skip_ok => n = 0

\* The callback of a breakpoint hit has raised: the line event has ended with
\* Fatal and no hook is installed.
C15_Witness ==
    /\ last.what = "line"
    /\ Names(last.calls) = <<"bkpt_user_line">>
    /\ last.directive = "Fatal"
    /\ c_tracefunc = "NULL"
    /\ c_profilefunc = "NULL"
    /\ stack # <<>>
    /\ stack[Top].f_trace = "NULL"

\* The session state reset() sets.
SessionState(w) ==
    [botframe |-> w.bdb.botframe, quitting |-> w.bdb.quitting,
     topframe |-> w.bdb.topframe, stopframe |-> w.bdb.stopframe,
     stop_lineno |-> w.bdb.stop_lineno,
     ignore_first_call_event |-> w.bdb.ignore_first_call_event]

\* C18: reset() called twice in sequence with the same arguments leaves the
\* session state (and everything else) that one call leaves.
C18_ResetIdempotent ==
    \A ignore \in {"absent", "True", "False"} :
        \A b \in {Py_None} \cup (1..Len(stack)) :
            LET once == BdbTracer_reset(World, ignore, b)
                twice == BdbTracer_reset(once, ignore, b)
            IN /\ SessionState(twice) = SessionState(once)
               /\ twice = once
               /\ SessionState(once) =
                     [botframe |-> b, quitting |-> FALSE, topframe |-> Py_None,
                      stopframe |-> Py_None, stop_lineno |-> 0,
                      ignore_first_call_event |-> (ignore # "False")]

\* reset(False, frame) has been called for the running frame, the second
\* frame of the stack, while the full hook is installed: the same call once
\* more changes nothing.
C18_Witness ==
    /\ last.what = "reset"
    /\ Top = 2
    /\ bdb.botframe = Top
    /\ ~bdb.ignore_first_call_event
    /\ c_tracefunc = "tracer"
    /\ SessionState(BdbTracer_reset(World, "False", Top)) = SessionState(World)

\* The call event of the frame entered next, when a hook is installed, the
\* ignore-first-call flag is clear and the callee is not in skip_calls:
\* P(stop, index, in, d, f) is asserted for every input in which
\* is_skipped_module() does not raise, stop and index telling whether the stop
\* policy and the breakpoint index are interested in the frame.
AtCall(P(_, _, _, _, _)) ==
    ( /\ Len(stack) < MaxDepth
      /\ BdbTracer_gettrace(World) = "self"
      /\ ~bdb.ignore_first_call_event )
    => \A u \in Callees(Top + 1) \ bdb.skip_calls :
          LET f == Top + 1
              w0 == NewFrame(World, u)
              stop == stop_here(w0, f, co_firstlineno(u), DefaultInput) = 1
              index == bkpt_in_code(w0, f).res # "None"
          IN \A in \in SkipOkInputs(w0, f, "call", co_firstlineno(u)) :
                P(stop, index, in, Deliver(w0, f, "call", co_firstlineno(u), in), f)

\* user_call is invoked once and the frame is kept at line level.
UserCallAndKeep(d, f) ==
    /\ d.w.calls = << <<"user_call", "arg">> >>
    /\ d.directive = "Keep"
    /\ d.w.stack[f].f_trace = "self"
    /\ d.w.ct = "tracer"

C20_Stated(stop, index, in, d, f) ==
    ((stop \/ index) /\ ~in.cmd.raise /\ in.cmd.traceobj = "self")
        => UserCallAndKeep(d, f)

C20_Amended(stop, index, in, d, f) ==
    /\ stop =>
          /\ d.w.calls # <<>>
          /\ \A i \in 1..Len(d.w.calls) : d.w.calls[i] = <<"user_call", "arg">>
          /\ IF in.cmd.raise \/ in.cmd.traceobj = "NULL"
             THEN /\ Len(d.w.calls) = 1
                  /\ d.directive = "Fatal" \/ d.second = "Fatal"
             ELSE IF in.cmd.traceobj = "None"
             THEN d.directive = "Uninstall" /\ d.w.stack[f].f_trace = "NULL"
             ELSE UserCallAndKeep(d, f)
    /\ (~stop /\ index) =>
          /\ d.w.calls = <<>>
          /\ d.directive = "Keep"
          /\ d.w.stack[f].f_trace = "self"
          /\ d.w.ct = "tracer"
          /\ d.w.cp = "NULL"

\* C20 (as stated): on a call event (flag clear, callee not in skip_calls),
\* when the stop policy or the breakpoint index is interested in the frame,
\* user_call is invoked and the frame is kept installed at line level (the
\* callback answering with the dispatcher).
C20_UserCallAlways == AtCall(C20_Stated)

\* C20 (amended): when the stop policy is interested, user_call is invoked,
\* and the frame is kept at line level when the callback answers with the
\* dispatcher (Uninstall when it answers None, Fatal when it raises); when
\* only the breakpoint index is interested, no callback is invoked and the
\* frame is kept at line level.
C20_CallInterest == AtCall(C20_Amended)

\* A call event has entered a frame of a unit with breakpoints while the stop
\* policy was false for it and the flag was clear: no callback, and the frame
\* has its line-level hook.
C20_Witness ==
    /\ last.what = "call"
    /\ ~last.ignored
    /\ last.calls = <<>>
    /\ last.directive = "Keep"
    /\ stack # <<>>
    /\ stack[Top].f_trace = "self"
    /\ HasLineSet(World, stack[Top].f_code)
    /\ stop_here(World, Top, co_firstlineno(stack[Top].f_code), DefaultInput) = 0

\* =====================================================================
\* The call event and the breakpoint index (checked under Spec)
\* =====================================================================
\* The call event of a frame of u entered next, for which the stop policy is
\* false (no step target is active for the frame): P(u, f, w0, d) is asserted
\* of what every delivery d of the event leaves, is_skipped_module() not
\* raising.
AtQuietCall(P(_, _, _, _)) ==
    Len(stack) < MaxDepth =>
        \A u \in Callees(Top + 1) :
            LET f == Top + 1
                w0 == NewFrame(World, u)
            IN stop_here(w0, f, co_firstlineno(u), DefaultInput) = 0 =>
                  \A in \in SkipOkInputs(w0, f, "call", co_firstlineno(u)) :
                     P(u, f, w0, Deliver(w0, f, "call", co_firstlineno(u), in))

\* The line-level hook is installed on the frame entered.
Installed(d, f) == d.w.stack[f].f_trace = "self"

C21_Stated(u, f, w0, d) ==
    (~w0.bdb.ignore_first_call_event /\ Installed(d, f))
        => \E ln \in CodeLines(u) \cup {co_firstlineno(u)} : HasBreak(w0, u, ln)

C21_Amended(u, f, w0, d) ==
    /\ Installed(d, f) <=>
          /\ BdbTracer_gettrace(w0) = "self"
          /\ \/ w0.bdb.ignore_first_call_event
             \/ /\ u \notin w0.bdb.skip_calls
                /\ HasLineSet(w0, u)
                /\ LnInterned(w0, co_firstlineno(u))
    /\ Installed(d, f) => d.directive = "Keep" /\ d.w.calls = <<>> /\ d.w.ct = "tracer"
    /\ (~w0.bdb.ignore_first_call_event /\ ~LnInterned(w0, co_firstlineno(u)))
          => ~Installed(d, f)

StepOrNext(n) ==
    {Input(Cmd(FALSE, TRUE, sf, 0, FALSE, "self"), "ok", TRUE) : sf \in {Py_None, n}}

\* The world the next event meets after event d: the callbacks of d are past.
After(w) == [w EXCEPT !.calls = <<>>]

\* The return event of the top frame, which has a caller and is not the
\* botframe (and does not become it: a botframe is set), in which user_return
\* is invoked and requests step or next: P(w1, caller) is asserted of the
\* world w1 the host is left in once it has dropped the frame.
AtSteppedReturn(P(_, _)) ==
    (Top >= 2 /\ bdb.botframe \notin {Py_None, Top}) =>
        \A ln \in CodeLines(stack[Top].f_code) :
            \A in \in StepOrNext(Top) :
                LET d == Deliver(World, Top, "return", ln, in)
                IN (d.w.calls # <<>> /\ d.w.calls[1][1] = "user_return")
                      => P(After(PopFrame(d.w)), Top - 1)

\* The caller has its line-level hook and the thread the full hook.
CallerTraced(w1, caller) ==
    /\ w1.stack[caller].f_trace = "self"
    /\ w1.ct = "tracer"
    /\ w1.cp = "NULL"

\* The callbacks of a line event in the caller.
CallerLine(w1, caller, ln, in) == Names(Deliver(w1, caller, "line", ln, in).w.calls)

C22_Stated(w1, caller) ==
    /\ CallerTraced(w1, caller)
    /\ \A ln \in CodeLines(w1.stack[caller].f_code) :
          \A in \in SkipOkInputs(w1, caller, "line", ln) :
             CallerLine(w1, caller, ln, in) = <<"user_line">>

C22_Amended(w1, caller) ==
    /\ CallerTraced(w1, caller)
    /\ w1.bdb.stopframe = Py_None
    /\ w1.bdb.stop_lineno = 0
    /\ \A ln \in CodeLines(w1.stack[caller].f_code) :
          \A in \in SkipOkInputs(w1, caller, "line", ln) :
             IF is_skipped_module(w1, caller)
             THEN "user_line" \notin
                     {CallerLine(w1, caller, ln, in)[i] :
                         i \in 1..Len(CallerLine(w1, caller, ln, in))}
             ELSE CallerLine(w1, caller, ln, in) = <<"user_line">>

\* C22 (as stated): when user_return, invoked for a frame that is not the
\* botframe, requests next or step, the caller has its line-level hook and
\* the thread the full hook after the return, and the next line event in the
\* caller invokes user_line.
C22_CallerStops == AtSteppedReturn(C22_Stated)

\* C22 (amended): the same, the line event invoking user_line when the
\* caller's module is not a skipped module; when it is, user_line is not
\* invoked (the stop policy is false in a skipped module).
C22_CallerStopsUnlessSkipped == AtSteppedReturn(C22_Amended)

\* A return event in which user_return was invoked has given the caller,
\* which had none, its line-level hook: the thread is in full mode, and a
\* line event in the caller invokes user_line.
C22_Witness ==
    /\ last.what = "return"
    /\ last.promoted
    /\ Names(last.calls) = <<"user_return">>
    /\ stack # <<>>
    /\ c_tracefunc = "tracer"
    /\ stack[Top].f_trace = "self"
    /\ \A ln \in CodeLines(stack[Top].f_code) :
          CallerLine(World, Top, ln, DefaultInput) = <<"user_line">>

\* C23: a return event of the botframe (also of the frame user_return makes
\* the botframe), in the full or in the coarse level and whatever the
\* callbacks answer, leaves the line-level hook of the botframe's caller as
\* it was and installs no thread-wide hook: the full hook is not installed
\* when it was not, the coarse hook is never installed, and a coarse hook that
\* was installed is removed.
C23_NoStepAboveBotframe ==
    stack # <<>> =>
        \A ln \in CodeLines(stack[Top].f_code) :
            \A in \in Inputs(World, Top, "return", ln) :
                LET d == Deliver(World, Top, "return", ln, in)
                IN d.w.bdb.botframe = Top =>
                      /\ Top >= 2 => d.w.stack[Top - 1].f_trace = stack[Top - 1].f_trace
                      /\ d.w.ct \in {c_tracefunc, "NULL"}
                      /\ d.w.cp = "NULL"
                      /\ d.w.bdb.stopframe \in {bdb.stopframe, in.cmd.stopframe}

\* The botframe, whose caller has no line-level hook, has returned through
\* the full hook and stop_tracing was invoked: the caller still has no
\* line-level hook and the coarse hook is not installed.
C23_Witness ==
    /\ last.what = "return"
    /\ last.via = "tracer"
    /\ Names(last.calls) = <<"user_return", "stop_tracing">>
    /\ bdb.botframe = GoneFrame
    /\ stack # <<>>
    /\ stack[Top].f_trace = "NULL"
    /\ ~last.promoted
    /\ c_tracefunc = "tracer"
    /\ c_profilefunc = "NULL"

\* =====================================================================
\* Tracing removed from a callback (checked under Spec)
\* =====================================================================
\* A callback of the event has called settrace(False): a user_xxx callback
\* (get_traceobj() then answers None), or stop_tracing().
TracingRemoved(in, d) ==
    LET n == Len(d.w.calls)
    IN \/ n > 0 /\ d.w.calls[1][1] # "stop_tracing" /\ in.cmd.off
       \/ n > 0 /\ d.w.calls[n][1] = "stop_tracing" /\ in.st = "off"

\* C24: when a callback of an event has removed tracing with settrace(False),
\* the event ends with neither the full nor the coarse hook installed (on the
\* call and return paths the swap to the coarse hook is skipped); and while
\* no hook is installed no event reaches the dispatcher, which installs
\* none, nor does reset(): the hooks stay uninstalled until settrace(True).
C24_NoReinstall ==
    /\ \A e \in Events :
          \A in \in Inputs(e[1], e[2], e[3], e[4]) :
             LET d == Deliver(e[1], e[2], e[3], e[4], in)
             IN /\ TracingRemoved(in, d) =>
                      /\ d.w.ct = "NULL"
                      /\ d.w.cp = "NULL"
                      /\ d.directive = "Uninstall"
                /\ BdbTracer_gettrace(World) = "None" =>
                      /\ d.via = "none"
                      /\ d.w.calls = <<>>
                      /\ d.w.ct = "NULL"
                      /\ d.w.cp = "NULL"
    /\ BdbTracer_gettrace(World) = "None" =>
          /\ \A ignore \in {"absent", "True", "False"} :
                \A b \in {Py_None} \cup (1..Len(stack)) :
                   BdbTracer_gettrace(BdbTracer_reset(World, ignore, b)) = "None"
          /\ BdbTracer_gettrace(BdbTracer_settrace(World, FALSE)) = "None"
          /\ BdbTracer_settrace(World, TRUE).ct = "tracer"

\* user_call has removed tracing (continue, no breakpoints): the call event
\* has ended with Uninstall, the frame has no line-level hook and neither the
\* full nor the coarse hook is installed.
C24_Witness ==
    /\ last.what = "call"
    /\ Names(last.calls) = <<"user_call">>
    /\ last.directive = "Uninstall"
    /\ stack # <<>>
    /\ stack[Top].f_trace = "NULL"
    /\ c_tracefunc = "NULL"
    /\ c_profilefunc = "NULL"

\* =====================================================================
\* The one-entry cache of the breakpoint index (checked under IndexSpec)
\* =====================================================================
\* The state IndexSpec starts in is a state of Spec.
IndexInitReached ==
    /\ bdb = IndexTracer
    /\ stack = <<>>
    /\ c_tracefunc = "tracer"
    /\ c_profilefunc = "NULL"

\* The one-entry cache: the code unit, the module set and the line-set.
Cache(w) == <<w.bdb.f_code, w.bdb.module_bps, w.bdb.code_bps>>

\* The cache entry of code unit u.
CacheOf(u) == <<u, co_filename(u), <<co_filename(u), co_firstlineno(u)>> >>

\* The line-set of u in the index holds a breakpoint.
NonEmptyLineSet(w, u) ==
    HasLineSet(w, u) /\ w.bdb.breakpoints[co_filename(u)][co_firstlineno(u)] # {}

\* C25 (as stated): a resolution changes the cache only when it resolves to a
\* line-set that is not empty.
C25_OnlyNonEmptyCached ==
    \A f \in 1..Len(stack) :
        Cache(bkpt_in_code(World, f).w) # Cache(World)
            => NonEmptyLineSet(World, stack[f].f_code)

\* C25 (amended): a resolution that succeeds (the code unit has a line-set in
\* the index, empty or not) stores the code unit, its module set and its
\* line-set in the cache and returns the module set; a miss returns None and
\* leaves the cache, and everything else, as it was; so at any time the cache
\* is empty or its three fields are those of one code unit that has a
\* line-set in the index.
C25_CacheOfResolvedUnit ==
    /\ \A f \in 1..Len(stack) :
          LET r == bkpt_in_code(World, f)
          IN IF HasLineSet(World, stack[f].f_code)
             THEN /\ r.res = co_filename(stack[f].f_code)
                  /\ Cache(r.w) = CacheOf(stack[f].f_code)
             ELSE /\ r.res = "None"
                  /\ r.w = World
    /\ \/ Cache(World) = <<"NULL", "NULL", <<>> >>
       \/ /\ bdb.f_code \in Units
          /\ Cache(World) = CacheOf(bdb.f_code)
          /\ HasLineSet(World, bdb.f_code)

\* W has been entered and resolved at its call event: the cache holds W.
\* The line-set of U, the caller, had been emptied before, and a resolution
\* for the frame of U would put U, with its empty line-set, in the cache.
C25_Witness ==
    /\ Top = 2
    /\ stack[2].f_code = "W"
    /\ Cache(World) = CacheOf("W")
    /\ last.what = "call"
    /\ last.directive = "Keep"
    /\ HasLineSet(World, "U")
    /\ ~NonEmptyLineSet(World, "U")
    /\ Cache(bkpt_in_code(World, 1).w) = CacheOf("U")

\* =====================================================================
\* The call event: the ignore-first-call flag and skip_calls (under Spec)
\* =====================================================================
\* C26: while the ignore-first-call flag is set (reset() sets it) and a hook
\* is installed, a call event, through the full or the coarse hook, clears
\* the flag and changes nothing else in the tracer, invokes no callback and
\* yields Keep: the frame has its line-level hook and the thread the full
\* hook, whether or not the callee is in skip_calls, the stop policy is true,
\* is_skipped_module() would raise, or the unit has breakpoints.  Line,
\* return and exception events leave the flag as it is.  Once the flag is
\* clear a call event leaves it clear and is evaluated: a callee in
\* skip_calls gets Uninstall.
C26_IgnoreFirstCallOnce ==
    \A e \in Events :
        \A in \in Inputs(e[1], e[2], e[3], e[4]) :
            LET d == Deliver(e[1], e[2], e[3], e[4], in)
                f == e[2]
                u == e[1].stack[f].f_code
            IN IF e[3] # "call"
               THEN d.w.bdb.ignore_first_call_event = bdb.ignore_first_call_event
               ELSE IF BdbTracer_gettrace(World) = "None"
               THEN d.w.bdb = bdb
               ELSE IF bdb.ignore_first_call_event
               THEN /\ d.w.bdb = [bdb EXCEPT !.ignore_first_call_event = FALSE]
                    /\ d.w.calls = <<>>
                    /\ d.directive = "Keep"
                    /\ d.via \in {"tracer", "profiler"}
                    /\ d.w.stack[f].f_trace = "self"
                    /\ d.w.ct = "tracer"
                    /\ d.w.cp = "NULL"
               ELSE /\ ~d.w.bdb.ignore_first_call_event
                    /\ u \in bdb.skip_calls =>
                          d.directive = "Uninstall" /\ d.w.stack[f].f_trace = "NULL"

\* After reset(True), the first call event, delivered through the coarse
\* hook, has cleared the flag and invoked nothing: the frame has its
\* line-level hook and the thread is in full mode.
C26_Witness ==
    /\ last.what = "call"
    /\ last.via = "profiler"
    /\ last.ignored
    /\ last.calls = <<>>
    /\ last.directive = "Keep"
    /\ ~bdb.ignore_first_call_event
    /\ stack[Top].f_trace = "self"
    /\ c_tracefunc = "tracer"
    /\ c_profilefunc = "NULL"

\* C27: a call event with the ignore-first-call flag clear whose callee is in
\* skip_calls yields Uninstall: no callback is invoked, the frame gets no
\* line-level hook and the tracer is left as it was (neither the stop policy
\* nor the breakpoint index is evaluated), also when the stop policy is true
\* for the frame, when is_skipped_module() would raise, and when the code unit
\* has breakpoints.
C27_SkipCalls ==
    (Len(stack) < MaxDepth /\ BdbTracer_gettrace(World) = "self"
                           /\ ~bdb.ignore_first_call_event) =>
        \A u \in Callees(Top + 1) \cap bdb.skip_calls :
            LET f == Top + 1
                w0 == NewFrame(World, u)
            IN \A in \in Inputs(w0, f, "call", co_firstlineno(u))
                          \cup {Input(KeepCmd, "ok", FALSE)} :
                  LET d == Deliver(w0, f, "call", co_firstlineno(u), in)
                  IN /\ d.directive = "Uninstall"
                     /\ d.second \in {"none", "Uninstall"}
                     /\ d.w.calls = <<>>
                     /\ d.w.stack[f].f_trace = "NULL"
                     /\ d.w.bdb = bdb

\* A frame of U, which is in skip_calls, has been entered with the flag
\* clear while a breakpoint was set in U and the stop policy was true for
\* the frame: Uninstall, and no callback.
C27_Witness ==
    /\ last.what = "call"
    /\ last.via # "none"
    /\ ~last.ignored
    /\ ~bdb.ignore_first_call_event
    /\ last.calls = <<>>
    /\ last.directive = "Uninstall"
    /\ stack # <<>>
    /\ stack[Top].f_code \in bdb.skip_calls
    /\ stack[Top].f_trace = "NULL"
    /\ HasBreak(World, stack[Top].f_code, 7)
    /\ stop_here(World, Top, co_firstlineno(stack[Top].f_code), DefaultInput) = 1

\* =====================================================================
\* Line and exception events (checked under Spec)
\* =====================================================================
\* A line or exception event of the top frame, which has its line-level hook
\* while the full hook is installed: P(stop, ln, in, d) is asserted of every
\* delivery d in which is_skipped_module() does not raise, stop telling
\* whether the stop policy is true for the frame at line ln.
AtTracedEvent(what, P(_, _, _, _)) ==
    (stack # <<>> /\ c_tracefunc = "tracer" /\ stack[Top].f_trace = "self") =>
        \A ln \in CodeLines(stack[Top].f_code) :
            \A in \in SkipOkInputs(World, Top, what, ln) :
                P(stop_here(World, Top, ln, DefaultInput) = 1, ln, in,
                  Deliver(World, Top, what, ln, in))

\* No callback, and the frame stays installed.
NoCallbackAndKept(d) ==
    /\ d.w.calls = <<>>
    /\ d.directive = "Keep"
    /\ d.w.stack[Top].f_trace = "self"
    /\ d.w.ct = "tracer"

C28_Line(stop, ln, in, d) ==
    /\ Len(d.w.calls) <= 1
    /\ stop =>
          /\ d.w.calls = << <<"user_line", "-">> >>
          /\ Cache(d.w) = Cache(World)
    /\ (~stop /\ HasBreak(World, stack[Top].f_code, ln)) =>
          d.w.calls = << <<"bkpt_user_line", co_filename(stack[Top].f_code)>> >>
    /\ (~stop /\ ~HasBreak(World, stack[Top].f_code, ln)) => NoCallbackAndKept(d)

\* C28: a line event invokes at most one callback.  When the stop policy is
\* true, it is user_line, and the breakpoint index is not consulted (the cache
\* is as it was), also when a breakpoint is set at the line; when the stop
\* policy is false and a breakpoint is set at the line, it is
\* bkpt_user_line; otherwise no callback is invoked and the frame stays
\* installed.  A frame without line-level hook gets no callback.
C28_LinePrecedence == AtTracedEvent("line", C28_Line) /\ NoCallbackWhileDemoted

\* A line event has invoked user_line, and only it, in a frame of U while a
\* breakpoint was set at line 7 of U; the index has not been consulted since
\* the tracer was built (the cache is empty), and a line event at line 7
\* invokes user_line.
C28_Witness ==
    /\ last.what = "line"
    /\ last.calls = << <<"user_line", "-">> >>
    /\ stack # <<>>
    /\ stack[Top].f_code = "U"
    /\ HasBreak(World, "U", 7)
    /\ bdb.f_code = "NULL"
    /\ c_tracefunc = "tracer"
    /\ stack[Top].f_trace = "self"
    /\ Names(Deliver(World, Top, "line", 7, DefaultInput).w.calls) = <<"user_line">>

C29_Exception(stop, ln, in, d) ==
    /\ stop => d.w.calls = << <<"user_exception", "arg">> >>
    /\ ~stop => NoCallbackAndKept(d)
    /\ Cache(d.w) = Cache(World)
    /\ (Names(d.w.calls) = <<"user_exception">>)
          <=> (Names(Deliver(World, Top, "line", ln, in).w.calls) = <<"user_line">>)

\* C29: an exception event in a frame that has its line-level hook invokes
\* user_exception, with the exception value, exactly when stop_here is true
\* for the frame, which is exactly when a line event at the same line would
\* invoke user_line; the breakpoint index is not consulted (the cache is as it
\* was), and when stop_here is false no callback is invoked and the frame
\* stays installed, also at a line with a breakpoint.
C29_ExceptionStop == AtTracedEvent("exception", C29_Exception)

\* An exception event in a frame of U has invoked no callback while a
\* breakpoint was set at line 7 of U and the stop policy was false: at line 7
\* a line event reports the breakpoint, an exception event reports nothing.
C29_Witness ==
    /\ last.what = "exception"
    /\ last.via = "tracer"
    /\ last.calls = <<>>
    /\ last.directive = "Keep"
    /\ stack # <<>>
    /\ stack[Top].f_code = "U"
    /\ stack[Top].f_trace = "self"
    /\ HasBreak(World, "U", 7)
    /\ stop_here(World, Top, 7, DefaultInput) = 0
    /\ Deliver(World, Top, "exception", 7, DefaultInput).w.calls = <<>>
    /\ Names(Deliver(World, Top, "line", 7, DefaultInput).w.calls) = <<"bkpt_user_line">>

\* =====================================================================
\* The promotion of the caller (checked under Spec)
\* =====================================================================
\* The return event of the top frame, which has a caller and is not the
\* botframe (a botframe is set), in which user_return is invoked and answers
\* with the dispatcher (the session goes on): P(sf, sl, d) is asserted of
\* every such delivery d, sf and sl being the stopframe and the threshold the
\* callback leaves.
AtUserReturn(P(_, _, _)) ==
    (Top >= 2 /\ bdb.botframe \notin {Py_None, Top}) =>
        \A ln \in CodeLines(stack[Top].f_code) :
            \A in \in {i \in SkipOkInputs(World, Top, "return", ln) :
                          ~i.cmd.raise /\ i.cmd.traceobj = "self"} :
                LET d == Deliver(World, Top, "return", ln, in)
                IN (d.w.calls # <<>> /\ d.w.calls[1][1] = "user_return") =>
                      P(IF in.cmd.set THEN in.cmd.stopframe ELSE bdb.stopframe,
                        IF in.cmd.set THEN in.cmd.stop_lineno ELSE bdb.stop_lineno,
                        d)

C30_Stated(sf, sl, d) ==
    stack[Top - 1].f_trace = "NULL" =>
        /\ d.w.stack[Top - 1].f_trace = "self"
        /\ d.w.bdb.stopframe = Py_None
        /\ d.w.bdb.stop_lineno = 0

C30_Amended(sf, sl, d) ==
    /\ d.w.calls = << <<"user_return", "arg">> >>
    /\ d.directive = "Keep"
    /\ IF (sf = Py_None /\ sl = 0) \/ sf = Top
       THEN /\ d.w.stack[Top - 1].f_trace = "self"
            /\ d.w.bdb.stopframe = Py_None
            /\ d.w.bdb.stop_lineno = 0
            /\ d.w.ct = "tracer"
            /\ d.w.cp = "NULL"
       ELSE /\ d.w.stack[Top - 1].f_trace = stack[Top - 1].f_trace
            /\ d.w.bdb.stopframe = sf
            /\ d.w.bdb.stop_lineno = sl
            /\ stack[Top - 1].f_trace = "NULL" =>
                  d.w.ct = "NULL" /\ d.w.cp = "profiler"

\* C30 (as stated): when user_return has been invoked for a frame that is not
\* the botframe and has not ended the session, a caller without line-level
\* hook gets the hook, and the stopframe and the threshold are cleared.
C30_AlwaysPromoted == AtUserReturn(C30_Stated)

\* C30 (amended): the caller is promoted, and the stopframe and the threshold
\* are cleared, when the step target user_return leaves is step (no
\* stopframe, threshold 0) or names the returning frame; with another target
\* (continue, or a stopframe that is another frame) the caller's hook and the
\* target are left as they are, and the thread is switched to the coarse
\* hook when the caller has no line-level hook.
C30_PromotedWhenStepping == AtUserReturn(C30_Amended)

\* user_return has been invoked for the second frame of the stack, the
\* botframe being the first, which had no line-level hook: it has the hook
\* now, the step target is cleared and the full hook is installed.
C30_Witness ==
    /\ last.what = "return"
    /\ last.promoted
    /\ last.calls = << <<"user_return", "arg">> >>
    /\ last.directive = "Keep"
    /\ Top = 1
    /\ bdb.botframe = 1
    /\ stack[1].f_trace = "self"
    /\ bdb.stopframe = Py_None
    /\ bdb.stop_lineno = 0
    /\ c_tracefunc = "tracer"

\* =====================================================================
\* The two levels of instrumentation (checked under Spec)
\* =====================================================================
\* C31: in a session that is active (a thread-wide hook is installed before
\* the return event and one is installed after it), when the caller of the
\* returning frame has its line-level hook once the event is over (it had
\* it, or the event gave it), the thread-wide hook is the full one and not
\* the coarse one, and a line event in the caller is delivered to the
\* dispatcher's trace function.
C31_CallerRegainsLines ==
    (Top >= 2 /\ BdbTracer_gettrace(World) = "self") =>
        \A ln \in CodeLines(stack[Top].f_code) :
            \A in \in Inputs(World, Top, "return", ln) :
                LET d == Deliver(World, Top, "return", ln, in)
                IN ( /\ d.w.stack[Top - 1].f_trace = "self"
                     /\ BdbTracer_gettrace(d.w) = "self" )
                   => /\ d.w.ct = "tracer"
                      /\ d.w.cp = "NULL"
                      /\ \A l2 \in CodeLines(stack[Top - 1].f_code) :
                            Deliver(After(PopFrame(d.w)), Top - 1, "line", l2,
                                    DefaultInput).via = "tracer"

\* A frame that ran under the coarse hook has returned to a caller that has
\* its line-level hook: the coarse hook has reinstalled the full one.
C31_Witness ==
    /\ last.what = "return"
    /\ last.via = "profiler"
    /\ stack # <<>>
    /\ stack[Top].f_trace = "self"
    /\ c_tracefunc = "tracer"
    /\ c_profilefunc = "NULL"

\* At most one of the full and the coarse hook is installed.
Exclusive(w) == ~(w.ct # "NULL" /\ w.cp # "NULL")

\* C32: at most one of the full hook and the coarse hook is installed on the
\* thread in every state the host is left in: after every event the
\* dispatcher is delivered (whatever the callbacks answer), after a swap of
\* the hooks, and after settrace(True) and settrace(False).
C32_LevelsExclusive ==
    /\ Exclusive(World)
    /\ \A e \in Events :
          \A in \in Inputs(e[1], e[2], e[3], e[4]) :
             Exclusive(Deliver(e[1], e[2], e[3], e[4], in).w)
    /\ Exclusive(swap_tracer_profiler(World))
    /\ \A do_set \in BOOLEAN : Exclusive(BdbTracer_settrace(World, do_set))

\* A return event delivered to the full hook has swapped the thread to the
\* coarse hook (the caller has no line-level hook): the full hook is gone.
C32_Witness ==
    /\ last.what = "return"
    /\ last.via = "both"
    /\ stack # <<>>
    /\ stack[Top].f_trace = "NULL"
    /\ c_tracefunc = "NULL"
    /\ c_profilefunc = "profiler"

\* The call event of the frame entered next, delivered to the full hook,
\* which demotes the frame (the directive is Uninstall) with no callback
\* having removed tracing: P(traced, d) is asserted of every such delivery d,
\* traced telling whether a frame of the stack has a line-level hook.
AtDemotingCall(P(_, _)) ==
    (Len(stack) < MaxDepth /\ c_tracefunc = "tracer") =>
        \A u \in Callees(Top + 1) :
            \A in \in Inputs(NewFrame(World, u), Top + 1, "call", co_firstlineno(u)) :
                LET d == Deliver(NewFrame(World, u), Top + 1, "call",
                                 co_firstlineno(u), in)
                IN (d.directive = "Uninstall" /\ ~TracingRemoved(in, d)) =>
                      P(\E g \in 1..Top : stack[g].f_trace = "self", d)

C33_Stated(traced, d) ==
    IF traced THEN d.w.ct = "tracer" /\ d.w.cp = "NULL"
    ELSE d.w.ct = "NULL" /\ d.w.cp = "profiler"

C33_Amended(traced, d) ==
    /\ d.w.ct = "NULL"
    /\ d.w.cp = "profiler"
    /\ d.w.stack[Top + 1].f_trace = "NULL"
    /\ \A g \in 1..Top : d.w.stack[g].f_trace = stack[g].f_trace

\* C33 (as stated): a call event that demotes the frame it enters swaps the
\* thread-wide hook from full to coarse only when no frame of the stack has a
\* line-level hook; when one has, the thread-wide hook stays full.
C33_SwapOnlyWhenNoneTraced == AtDemotingCall(C33_Stated)

\* C33 (amended): a call event that demotes the frame it enters swaps the
\* thread-wide hook from full to coarse whether or not a frame of the stack
\* has a line-level hook (the swap is skipped only when a callback has
\* removed tracing); the line-level hooks of the frames of the stack are left
\* as they are.
C33_SwapAtEveryDemotion == AtDemotingCall(C33_Amended)

\* A call event entered from a frame that has its line-level hook has
\* demoted the callee: the thread is on the coarse hook all the same.
C33_Witness ==
    /\ last.what = "call"
    /\ last.directive = "Uninstall"
    /\ last.via = "both"
    /\ Top >= 2
    /\ stack[Top - 1].f_trace = "self"
    /\ stack[Top].f_trace = "NULL"
    /\ c_tracefunc = "NULL"
    /\ c_profilefunc = "profiler"

\* =====================================================================
\* The session bookkeeping (checked under Spec)
\* =====================================================================
\* C34: in every state in which no user-visible callback is executing (the
\* states between two operations: after an event, also one whose callback
\* has raised, and after reset()), topframe and topframe_locals are unset.
C34_TopframeUnset ==
    /\ bdb.topframe = Py_None
    /\ bdb.topframe_locals = "None"

\* =====================================================================
\* The attach state machine (checked under AttachSpec)
\* =====================================================================
\* The attached session: the current context, the contexts and the
\* sub-interpreters alive, the main thread's hook and the current thread state.
SessionPart(p) == <<p.current_pdbctx, p.contexts, p.subinterps, p.hook, p.tstate>>

\* One step of the attach machinery, from idle (current_pdbctx NULL) to
\* attached and back.
AttachCycleStep ==
    /\ (pdbhandler.current_pdbctx = "ctx" /\ alast'.op # "teardown") =>
          SessionPart(pdbhandler') = SessionPart(pdbhandler)
    /\ (pdbhandler.current_pdbctx = "ctx" /\ alast'.op = "teardown") =>
          /\ pdbhandler'.current_pdbctx = "NULL"
          /\ pdbhandler'.contexts = 0
          /\ pdbhandler'.subinterps = 0
          /\ pdbhandler'.tstate = pdbhandler.tstate
    /\ (pdbhandler.current_pdbctx = "NULL" /\ pdbhandler'.current_pdbctx = "ctx") =>
          /\ alast'.op \in {"pending", "attach_string"}
          /\ alast'.rc = 0
          /\ pdbhandler'.contexts = 1
          /\ pdbhandler'.subinterps = 1
    /\ (pdbhandler.current_pdbctx = "NULL" /\ pdbhandler'.current_pdbctx = "NULL") =>
          /\ pdbhandler'.contexts = 0
          /\ pdbhandler'.subinterps = 0

\* C35: the attach machinery goes from idle to attached through a bootstrap
\* that returns 0 (the bootstrapping is inside that one operation), and back
\* to idle through the teardown only: while a session is attached, every
\* operation but the teardown (register(), unregister(), a signal, its
\* handler, a further bootstrap) leaves the current context, the contexts and
\* sub-interpreters alive, the hook and the current thread state as they
\* are; the teardown leaves current_pdbctx NULL and no context alive.
C35_AttachCycle == [][AttachCycleStep]_vars

\* In the second session of the run (the first went back to idle through its
\* teardown) register() has replaced the registration: the session is still
\* attached.
C35_Witness ==
    /\ history.sessions = 2
    /\ pdbhandler.current_pdbctx = "ctx"
    /\ pdbhandler.contexts = 1
    /\ pdbhandler.hook = "pdb"
    /\ alast.op = "register"
    /\ alast.note = "replaced"

\* C36: when a bootstrap succeeds (it returns 0 having constructed the
\* session: no session was attached and no step failed), the main thread's
\* hook is the trace function the debugger installed in the sub-interpreter,
\* whatever hook was installed before (none, or another tool's); the
\* sub-interpreter's thread state has no trace function; and the current
\* thread state is the main one again.
C36_HookMoved ==
    (~pdbhandler.aborted /\ pdbhandler.current_pdbctx = "NULL") =>
        \A in \in {i \in GuardInputs : ~i.tracing /\ i.fail = "none"} :
            LET r == bootstrappdb(pdbhandler, in)
            IN /\ r.res = 0
               /\ r.w.current_pdbctx = "ctx"
               /\ r.w.hook = "pdb"
               /\ r.w.subhook = "NULL"
               /\ r.w.tstate = pdbhandler.tstate
               /\ r.w.tstate = "main"

\* A pending bootstrap has attached a session while another tool's hook was
\* installed on the main thread: the hook is the debugger's now.
C36_Witness ==
    /\ alast.op = "pending"
    /\ alast.note = "attached"
    /\ alast.rc = 0
    /\ history.pre_hook = "other"
    /\ pdbhandler.hook = "pdb"
    /\ pdbhandler.subhook = "NULL"
    /\ pdbhandler.tstate = "main"
    /\ pdbhandler.subinterps = 1

\* =====================================================================
\* The threshold -1 (checked under Spec)
\* =====================================================================
\* The callbacks of the stop policy.
UserCallbacks == {"user_call", "user_line", "user_exception", "user_return"}

NameSet(calls) == {calls[i][1] : i \in 1..Len(calls)}

C38_FailedRegisterKeepsState ==
    ~pdbhandler.aborted =>
        \A in \in {i \in RegisterInputs : i[3] \in {"none", "sigaction"}} :
            LET r == _register(pdbhandler, in[1], in[2], in[3])
            IN r.res = -1 =>
                  /\ r.w.signum = pdbhandler.signum
                  /\ r.w.address = pdbhandler.address
                  /\ r.w.host_port = pdbhandler.host_port
                  /\ r.w.previous = pdbhandler.previous
                  /\ r.w.disp = pdbhandler.disp

\* =====================================================================
\* The address a queued bootstrap is given (checked under AttachSpec)
\* =====================================================================
\* C39: the bootstrap the signal handler has queued runs, at the safe point,
\* with the address dictionary of a registration that is alive: every
\* argument in the pending queue is an address (not NULL) and is the address
\* pdbhandler_signal refers to, whatever unregister() and register() have
\* done since the handler ran.
C39_PendingAddressAlive ==
    ~pdbhandler.aborted =>
        \A i \in 1..Len(pdbhandler.pending) :
            /\ pdbhandler.pending[i] # 0
            /\ pdbhandler.pending[i] = pdbhandler.address
            /\ ArgsOutcomes(pdbhandler, pdbhandler.pending[i]) = {"dict"}

\* =====================================================================
\* What reset() changes (checked under Spec)
\* =====================================================================
\* The fields of the tracer reset() leaves alone: the breakpoint index, its
\* one-entry cache, the skip rules and the line-number cache.
KeptByReset(b) ==
    [breakpoints |-> b.breakpoints, module_bps |-> b.module_bps,
     code_bps |-> b.code_bps, f_code |-> b.f_code,
     skip_modules |-> b.skip_modules, skip_calls |-> b.skip_calls,
     linenumbers |-> b.linenumbers]

\* C40: reset(), with any arguments, changes nothing but botframe, the
\* quitting flag, topframe, topframe_locals, stopframe, the threshold and the
\* ignore-first-call flag: the breakpoint index, the one-entry cache, the
\* skip rules, the line-number cache, the thread-wide hooks and the frames'
\* line-level hooks are what they were.
C40_ResetFrame ==
    \A ignore \in {"absent", "True", "False"} :
        \A b \in {Py_None} \cup (1..Len(stack)) :
            LET w == BdbTracer_reset(World, ignore, b)
            IN /\ KeptByReset(w.bdb) = KeptByReset(bdb)
               /\ DOMAIN w.bdb = DOMAIN bdb
               /\ w.stack = stack
               /\ w.ct = c_tracefunc
               /\ w.cp = c_profilefunc
               /\ w.calls = <<>>
               /\ w.bdb = [bdb EXCEPT !.botframe = b,
                                      !.quitting = FALSE,
                                      !.topframe = Py_None,
                                      !.topframe_locals = "None",
                                      !.stopframe = Py_None,
                                      !.stop_lineno = 0,
                                      !.ignore_first_call_event = (ignore # "False")]

\* reset() has been called in the middle of a session: a breakpoint is set,
\* the cache holds the running unit, there are skip rules, the frame has its
\* line-level hook and the full hook is installed, all as before the call.
C40_Witness ==
    /\ last.what = "reset"
    /\ HasBreak(World, "U", 7)
    /\ bdb.f_code = "U"
    /\ bdb.module_bps = "a.py"
    /\ bdb.skip_modules # {}
    /\ bdb.linenumbers # {}
    /\ stack # <<>>
    /\ stack[Top].f_trace = "self"
    /\ c_tracefunc = "tracer"
    /\ bdb.stopframe = Py_None
    /\ bdb.stop_lineno = 0

====
